---- MODULE Spec2Model ----
(***************************************************************************)
(* Model of the kAIros task ranking engine (app/ranking.py): the scoring   *)
(* functions, the availability resolver, rank_tasks and the knapsack       *)
(* capacity selector.                                                      *)
(*                                                                         *)
(* Representation.                                                         *)
(*  - Scores are Python floats; they are kept here as fixed-point integers *)
(*    with Scale units per 1.0.  Scale is chosen so that every linear      *)
(*    formula of the code is exact on the hour grid used for deadlines.    *)
(*  - Deadlines and the clock reading `now` are hours since Monday 00:00.  *)
(*  - Calendar datetimes are seconds, carried with their tz-awareness.     *)
(*  - A task's id is its position in the input collection.                 *)
(***************************************************************************)
EXTENDS Integers, Sequences, FiniteSets, TLC

VARIABLES
    fn,              \* entry point called
    pc,              \* "ready" before the call runs, "done" after it returned or raised;
                     \* "sleeping" while retry_with_backoff waits between two attempts
    tasks,           \* rank_tasks: the task collection
    available_time,  \* explicit budget in minutes, or None
    current_task,    \* current task, or None
    time_period,     \* (start, end) window, or None
    now,             \* datetime.utcnow() during the call
    calendar,        \* what get_calendar_events answers: "raise" or a list of events
    items,           \* knapsack_task_selection called directly: list of {task, score}
    deadlines,       \* calculate_deadline_score: the deadlines scored at one clock reading
    minutes_arg,     \* calculate_duration_score: its estimated_minutes argument
    weights_str,     \* the DEFAULT_DOMAIN_WEIGHTS string read by get_domain_weights, as tokens
    domain_arg,      \* get_ranked_tasks_by_domain: its domain argument, or None
    max_retries,     \* retry_with_backoff: its max_retries argument
    failures,        \* how many leading invocations of the wrapped function raise
    clock_minutes,   \* the datetime a scoring function is given, in minutes since Monday 00:00
    result,          \* returned list of tasks
    scored,          \* ranked_tasks inside rank_tasks: the ScoredTask list, sorted by score
    slots,           \* returned list of free slots
    total_minutes,   \* get_total_available_minutes result, or None
    deadline_scores, \* calculate_deadline_score results
    raised,          \* an exception reached the caller
    actual_available_time, \* rank_tasks: the budget it resolved, or None
    resolver_calls,  \* number of get_total_available_minutes calls made by the call
    duration_result, \* calculate_duration_score result, or None
    weights_result,  \* get_domain_weights result, or None
    retries,         \* retry_with_backoff: the wrapper's retries counter
    invocations,     \* retry_with_backoff: invocations of the wrapped function so far
    score_result,    \* calculate_domain_priority_score / calculate_context_switch_score
                     \* result, or None
    clock,           \* time.time() of the web layer, in seconds
    admin_config,    \* ADMIN_USERNAME / ADMIN_PASSWORD_HASH / ADMIN_PASSWORD_SALT settings
    login_attempts,  \* admin.py: IP address -> (failed_attempts, last_attempt_timestamp)
    response,        \* the last answer of a login route: its IP address, method and status
    failed_streak,   \* per IP: the 401 answers in a row, each within LOCKOUT_DURATION of
                     \* the one before, since the last successful login
    last_failed,     \* per IP: the time of its last 401 answer, or None
    window,          \* RateLimiter.window (RATE_LIMIT_WINDOW)
    max_requests,    \* RateLimiter.max_requests (RATE_LIMIT_MAX_REQUESTS)
    block_threshold, \* RateLimiter.block_threshold (RATE_LIMIT_BLOCK_THRESHOLD)
    whitelist,       \* RateLimiter.whitelist
    limits,          \* RateLimiter.limits: IP -> {timestamp: count}, plus 'violations'
    blocked,         \* RateLimiter.blocked
    request_log      \* the is_rate_limited calls made so far: time, IP address and outcome

vars == <<fn, pc, tasks, available_time, current_task, time_period, now, calendar,
          items, deadlines, result, scored, slots, total_minutes, deadline_scores,
          raised, actual_available_time, resolver_calls,
          minutes_arg, weights_str, domain_arg, max_retries, failures,
          duration_result, weights_result, retries, invocations,
          clock_minutes, score_result,
          clock, admin_config, login_attempts, response, failed_streak, last_failed,
          window, max_requests, block_threshold, whitelist, limits, blocked,
          request_log>>

lockout_state == <<admin_config, login_attempts, response, failed_streak, last_failed>>

limiter_state == <<window, max_requests, block_threshold, whitelist, limits, blocked,
                   request_log>>

web == <<clock, lockout_state, limiter_state>>

other_outputs == <<duration_result, weights_result, retries, invocations, score_result>>

inputs == <<fn, tasks, available_time, current_task, time_period, now, calendar,
            items, deadlines, minutes_arg, weights_str, domain_arg, max_retries,
            failures, clock_minutes>>

(* Optional values: None, or Some(v) holding v *)
None == <<>>

Some(v) == <<v>>

Val(o) == o[1]

----------------------------------------------------------------------------
(* Bounds of the model *)

MaxTasks == 3
MaxItems == 3
MaxBudget == 5
MaxEvents == 2
MaxTokens == 6
MaxRetries == 5

(* Fixed-point unit of a score: Scale = 1.0.  Three decimals for the score
   tables and weights, times 126 so that the slopes 2/24, 2/72 and 3/168 of
   the deadline tiers, halved by the deadline weight, are whole units per
   hour *)
Scale == 126 * 1000

Max(a, b) == IF a >= b THEN a ELSE b

(* int(x / y) of Python for y > 0: truncation toward zero *)
TruncDiv(x, y) == IF x >= 0 THEN x \div y ELSE -((-x) \div y)

(* math.log10(num / den), in Scale units, on the arguments the model uses *)
Log10Table ==
    ( <<169, 24>> :> 106807 @@ <<192, 24>> :> 113789 @@ <<240, 24>> :> 126000 @@
      <<480, 24>> :> 163929 @@ <<720, 24>> :> 186117 @@ <<721, 24>> :> 186193 @@
      <<744, 24>> :> 187911 @@ <<2400, 24>> :> 252000 @@ <<24000, 24>> :> 378000 @@
      <<240000, 24>> :> 504000 @@ <<2400000, 24>> :> 630000 @@
      <<361, 30>> :> 136128 @@ <<480, 30>> :> 151719 @@ <<600, 30>> :> 163929 @@
      <<960, 30>> :> 189648 @@ <<3000, 30>> :> 252000 @@ <<30000, 30>> :> 378000 )

Log10(num, den) == Log10Table[<<num, den>>]

----------------------------------------------------------------------------
(* Domain weights *)

DefaultDomainWeights ==
    [work |-> Scale, life_admin |-> (8 * Scale) \div 10, general_life |-> (6 * Scale) \div 10]

(* A configuration string is a sequence of tokens: "," and ":" are the two
   separator characters, every other token is a run of text holding neither *)
DefaultWeightsStr ==
    <<"work", ":", "1.0", ",", "life_admin", ":", "0.8", ",", "general_life", ":", "0.6">>

(* ''.join(tokens) *)
RECURSIVE Text(_)
Text(tokens) == IF tokens = <<>> THEN "" ELSE Head(tokens) \o Text(Tail(tokens))

(* str.split(sep) on a token sequence: the pieces between the separators, in
   order; a string without the separator, the empty one included, is one piece *)
RECURSIVE Split(_, _)
Split(tokens, sep) ==
    IF \A k \in 1..Len(tokens) : tokens[k] # sep THEN <<tokens>>
    ELSE LET k == CHOOSE j \in 1..Len(tokens) :
                      tokens[j] = sep /\ \A h \in 1..(j - 1) : tokens[h] # sep
         IN  <<SubSeq(tokens, 1, k - 1)>> \o Split(SubSeq(tokens, k + 1, Len(tokens)), sep)

(* float(text) on the numerals the model writes; any other text is a ValueError *)
FloatTable ==
    ( "1.0" :> Scale @@ "0.8" :> (8 * Scale) \div 10 @@ "0.6" :> (6 * Scale) \div 10 @@
      "2.5" :> (25 * Scale) \div 10 )

(* domain, weight = item.split(':') or float(weight) raises ValueError *)
ItemRaises(item) ==
    LET fields == Split(item, ":")
    IN  Len(fields) # 2 \/ Text(fields[2]) \notin DOMAIN FloatTable

(* The weights dict after the first k items were stored *)
RECURSIVE ParseItems(_, _)
ParseItems(parts, k) ==
    IF k = 0 THEN << >>
    ELSE LET fields == Split(parts[k], ":")
             earlier == ParseItems(parts, k - 1)
         IN  (Text(fields[1]) :> FloatTable[Text(fields[2])]) @@ earlier

get_domain_weights_partial(str) ==
    LET parts == Split(str, ",")
        good == { k \in 1..Len(parts) : ~ItemRaises(parts[k]) }
        kept == [ k \in 1..Cardinality(good) |->
                    parts[CHOOSE j \in good : Cardinality({h \in good : h < j}) = k - 1] ]
    IN  IF good = {} THEN DefaultDomainWeights ELSE ParseItems(kept, Len(kept))

get_domain_weights(str) ==
    LET parts == Split(str, ",")
    IN  IF \E k \in 1..Len(parts) : ItemRaises(parts[k])
        THEN DefaultDomainWeights
        ELSE ParseItems(parts, Len(parts))

----------------------------------------------------------------------------
(* Scoring functions *)

(* calculate_deadline_score with the upper bound of each tier exclusive *)
calculate_deadline_score_exclusive(deadline, time_now) ==
    IF deadline = None THEN 5 * Scale
    ELSE IF Val(deadline) < time_now THEN 10 * Scale
    ELSE LET hours_until_deadline == Val(deadline) - time_now IN
         IF hours_until_deadline < 24
         THEN Max(7 * Scale, 9 * Scale - (hours_until_deadline * 2 * Scale) \div 24)
         ELSE IF hours_until_deadline < 72
         THEN Max(6 * Scale, 8 * Scale - (hours_until_deadline * 2 * Scale) \div 72)
         ELSE IF hours_until_deadline < 168
         THEN Max(4 * Scale, 7 * Scale - (hours_until_deadline * 3 * Scale) \div 168)
         ELSE IF hours_until_deadline < 720
         THEN Max(2 * Scale, 5 * Scale - (Log10(hours_until_deadline, 24) * 15) \div 10)
         ELSE Max(1 * Scale, 3 * Scale - (Log10(hours_until_deadline, 24) * 5) \div 10)

calculate_deadline_score(deadline, time_now) ==
    IF deadline = None THEN 5 * Scale
    ELSE IF Val(deadline) < time_now THEN 10 * Scale
    ELSE LET hours_until_deadline == Val(deadline) - time_now IN
         IF hours_until_deadline <= 24
         THEN Max(7 * Scale, 9 * Scale - (hours_until_deadline * 2 * Scale) \div 24)
         ELSE IF hours_until_deadline <= 72
         THEN Max(6 * Scale, 8 * Scale - (hours_until_deadline * 2 * Scale) \div 72)
         ELSE IF hours_until_deadline <= 168
         THEN Max(4 * Scale, 7 * Scale - (hours_until_deadline * 3 * Scale) \div 168)
         ELSE IF hours_until_deadline <= 720
         THEN Max(2 * Scale, 5 * Scale - (Log10(hours_until_deadline, 24) * 15) \div 10)
         ELSE Max(1 * Scale, 3 * Scale - (Log10(hours_until_deadline, 24) * 5) \div 10)

calculate_duration_score(estimated_minutes) ==
    IF estimated_minutes <= 0 THEN 5 * Scale
    ELSE IF estimated_minutes <= 5 THEN 5 * Scale
    ELSE IF estimated_minutes <= 15 THEN (47 * Scale) \div 10
    ELSE IF estimated_minutes <= 30 THEN (43 * Scale) \div 10
    ELSE IF estimated_minutes <= 45 THEN 4 * Scale
    ELSE IF estimated_minutes <= 60 THEN (37 * Scale) \div 10
    ELSE IF estimated_minutes <= 90 THEN (33 * Scale) \div 10
    ELSE IF estimated_minutes <= 120 THEN 3 * Scale
    ELSE IF estimated_minutes <= 180 THEN (27 * Scale) \div 10
    ELSE IF estimated_minutes <= 240 THEN (23 * Scale) \div 10
    ELSE IF estimated_minutes <= 360 THEN 2 * Scale
    ELSE Max(1 * Scale, 5 * Scale - Log10(estimated_minutes, 30) * 2)

calculate_domain_priority_score(domain, domain_weights, time_of_day) ==
    LET base_weight == IF domain \in DOMAIN domain_weights
                       THEN domain_weights[domain] ELSE Scale \div 2
        hour == time_of_day % 24
        weekday == (time_of_day \div 24) % 7
    IN  IF domain = "work" /\ weekday < 5 /\ 9 <= hour /\ hour <= 17
        THEN (base_weight * 15) \div 10
        ELSE IF domain = "life_admin" /\ (hour >= 17 \/ hour <= 8 \/ weekday >= 5)
        THEN (base_weight * 13) \div 10
        ELSE IF domain = "general_life" /\ (hour >= 18 \/ weekday >= 5)
        THEN (base_weight * 12) \div 10
        ELSE base_weight

(* calculate_context_switch_score testing the domain before the project *)
calculate_context_switch_score_domain_first(cur, new_task) ==
    IF cur = None THEN 0
    ELSE IF Val(cur).domain = new_task.domain THEN Scale \div 2
    ELSE IF Val(cur).project_id # None /\ Val(cur).project_id = new_task.project_id THEN Scale
    ELSE -(Scale \div 5)

calculate_context_switch_score(cur, new_task) ==
    IF cur = None THEN 0
    ELSE IF Val(cur).project_id # None /\ Val(cur).project_id = new_task.project_id THEN Scale
    ELSE IF Val(cur).domain = new_task.domain THEN Scale \div 2
    ELSE -(Scale \div 5)

(* One ScoredTask of rank_tasks: the component scores and the weighted sum
   plus the urgency override *)
(* ScoredTask with the urgency override left out of the total *)
ScoredTask_no_override(task, cur, domain_weights, time_now) ==
    LET deadline_score == calculate_deadline_score(task.deadline, time_now)
        duration_score == calculate_duration_score(task.estimated_duration)
        domain_score == calculate_domain_priority_score(task.domain, domain_weights, time_now)
        context_score == calculate_context_switch_score(cur, task)
    IN  [task |-> task,
         score |-> (deadline_score * 50 + duration_score * 25 + domain_score * 15
                        + context_score * 10) \div 100,
         deadline_score |-> deadline_score,
         duration_score |-> duration_score,
         domain_score |-> domain_score,
         context_score |-> context_score]

ScoredTask(task, cur, domain_weights, time_now) ==
    LET deadline_score == calculate_deadline_score(task.deadline, time_now)
        duration_score == calculate_duration_score(task.estimated_duration)
        domain_score == calculate_domain_priority_score(task.domain, domain_weights, time_now)
        context_score == calculate_context_switch_score(cur, task)
        urgency_modifier == IF task.urgency_override # None
                            THEN Val(task.urgency_override) ELSE 0
    IN  [task |-> task,
         score |-> (deadline_score * 50 + duration_score * 25 + domain_score * 15
                        + context_score * 10) \div 100 + urgency_modifier,
         deadline_score |-> deadline_score,
         duration_score |-> duration_score,
         domain_score |-> domain_score,
         context_score |-> context_score]

----------------------------------------------------------------------------
(* list.sort / sorted: a stable sort.  before holds the pairs <<j, i>> of
   positions such that the key of seq[j] sorts strictly before the key of
   seq[i]; elements with equal keys keep their input order (also with
   reverse=True). *)
StableSort(seq, before) ==
    LET n == Len(seq)
        pos(i) == 1 + Cardinality({j \in 1..n :
                        \/ <<j, i>> \in before
                        \/ (<<i, j>> \notin before /\ j < i)})
    IN  [p \in 1..n |-> seq[CHOOSE i \in 1..n : pos(i) = p]]

Pairs(seq) == (1..Len(seq)) \X (1..Len(seq))

(* ScoreBefore without reverse=True: ascending order *)
ScoreBefore_ascending(x, y) == x.score < y.score

(* key=lambda x: x['score'], reverse=True *)
ScoreBefore(x, y) == x.score > y.score

(* ValueBefore without reverse=True: the lowest score per minute first *)
ValueBefore_ascending(x, y) ==
    x.score * Max(1, y.task.estimated_duration) < y.score * Max(1, x.task.estimated_duration)

(* key=lambda x: x['score'] / max(1, x['task'].estimated_duration), reverse=True;
   the two quotients are compared by cross-multiplication *)
ValueBefore(x, y) ==
    x.score * Max(1, y.task.estimated_duration) > y.score * Max(1, x.task.estimated_duration)

----------------------------------------------------------------------------
(* Capacity selector *)

(* dp[i][w]: column 0 and row 0 keep their initial 0, the loops start at 1 *)
RECURSIVE dp(_, _, _)
dp(ranked_tasks, i, w) ==
    IF i = 0 \/ w = 0 THEN 0
    ELSE LET duration == ranked_tasks[i].task.estimated_duration
             value == ranked_tasks[i].score
         IN  IF duration <= w
             THEN Max(dp(ranked_tasks, i - 1, w), dp(ranked_tasks, i - 1, w - duration) + value)
             ELSE dp(ranked_tasks, i - 1, w)

(* IndexError: dp[i-1][w-duration] with w - duration > available_time while
   the table is filled, or dp[i][w] on the empty rows that range(available_time
   + 1) gives for a negative available_time *)
IndexError(ranked_tasks, budget) ==
    \/ budget < 0
    \/ \E i \in 1..Len(ranked_tasks), w \in 1..budget :
          LET duration == ranked_tasks[i].task.estimated_duration
          IN  duration <= w /\ w - duration > budget

(* SpecialCases without the test of available_time *)
SpecialCases_empty_only(ranked_tasks, budget) == ranked_tasks = <<>>

(* The two special cases that return [] before the table is built *)
SpecialCases(ranked_tasks, budget) == ranked_tasks = <<>> \/ budget <= 0

(* RemainingAfter with the decrement of w forgotten *)
RemainingAfter_kept(ranked_tasks, i, w) == w

(* w -= ranked_tasks[i-1]['task'].estimated_duration, after item i is selected *)
RemainingAfter(ranked_tasks, i, w) == w - ranked_tasks[i].task.estimated_duration

(* The backtracking loop from item i at column w; the selected indices,
   reversed into ascending order *)
RECURSIVE Backtrack(_, _, _)
Backtrack(ranked_tasks, i, w) ==
    IF i = 0 THEN <<>>
    ELSE IF dp(ranked_tasks, i, w) # dp(ranked_tasks, i - 1, w)
         THEN Append(Backtrack(ranked_tasks, i - 1, RemainingAfter(ranked_tasks, i, w)), i)
         ELSE Backtrack(ranked_tasks, i - 1, w)

(* A greedy selector: the items taken in list order while they fit *)
RECURSIVE GreedyIndices(_, _, _)
GreedyIndices(ranked_tasks, i, w) ==
    IF i > Len(ranked_tasks) THEN <<>>
    ELSE LET duration == ranked_tasks[i].task.estimated_duration
         IN  IF duration <= w
             THEN <<i>> \o GreedyIndices(ranked_tasks, i + 1, w - duration)
             ELSE GreedyIndices(ranked_tasks, i + 1, w)

(* knapsack_task_selection as the greedy selection its caller's comment names *)
knapsack_task_selection_greedy(ranked_tasks, budget) ==
    IF ranked_tasks = <<>> \/ budget <= 0 THEN [raised |-> FALSE, tasks |-> <<>>]
    ELSE LET selected_indices == GreedyIndices(ranked_tasks, 1, budget)
         IN  [raised |-> FALSE,
              tasks |-> [k \in 1..Len(selected_indices) |->
                            ranked_tasks[selected_indices[k]].task]]

knapsack_task_selection(ranked_tasks, budget) ==
    IF SpecialCases(ranked_tasks, budget) THEN [raised |-> FALSE, tasks |-> <<>>]
    ELSE IF IndexError(ranked_tasks, budget) THEN [raised |-> TRUE, tasks |-> <<>>]
    ELSE LET selected_indices == Backtrack(ranked_tasks, Len(ranked_tasks), budget)
         IN  [raised |-> FALSE,
              tasks |-> [k \in 1..Len(selected_indices) |->
                            ranked_tasks[selected_indices[k]].task]]

----------------------------------------------------------------------------
(* Availability resolver *)

(* A datetime: seconds, and whether it carries a time zone *)
DT(t, aware) == [t |-> t, aware |-> aware]

(* The 'start' or 'end' field of a calendar event.  kind "iso": an ISO-8601
   string for second t, with a trailing 'Z' iff z; "bad": a string that
   datetime.fromisoformat rejects; "none": the value None; "missing": no
   such key *)
Iso(t, z) == [kind |-> "iso", t |-> t, z |-> z]

Bad == [kind |-> "bad", t |-> 0, z |-> FALSE]

NoneField == [kind |-> "none", t |-> 0, z |-> FALSE]

Missing == [kind |-> "missing", t |-> 0, z |-> FALSE]

(* Order of two start strings: 'YYYY-MM-DDTHH:MM:SS' sorts before the same
   text followed by 'Z', and digits sort before letters *)
StartBefore(a, b) ==
    IF a.start.kind = "iso" /\ b.start.kind = "iso"
    THEN a.start.t < b.start.t \/ (a.start.t = b.start.t /\ ~a.start.z /\ b.start.z)
    ELSE a.start.kind = "iso" /\ b.start.kind = "bad"

(* sorted(events, key=lambda e: e['start']): KeyError on a missing key,
   TypeError when None is compared *)
SortRaises(events) ==
    \/ \E k \in 1..Len(events) : events[k].start.kind = "missing"
    \/ Len(events) >= 2 /\ \E k \in 1..Len(events) : events[k].start.kind = "none"

(* event['start'].replace(...), event['end'], datetime.fromisoformat(...) *)
ParseRaises(event) == event.start.kind # "iso" \/ event.end.kind # "iso"

(* event_start < start_time, event_end > end_time between an offset-naive
   and an offset-aware datetime: TypeError *)
CompareRaises(event, start_time, end_time) ==
    event.start.z # start_time.aware \/ event.end.z # end_time.aware

(* The cursor set to the end of the event, even backward *)
AdvanceCursor_event_end(current_time, event_end) == event_end

(* current_time = max(current_time, event_end) *)
AdvanceCursor(current_time, event_end) ==
    IF current_time.t >= event_end.t THEN current_time ELSE event_end

(* The loop over sorted_events from event k on, with the cursor current_time
   and the slots found so far; then the final slot *)
RECURSIVE Sweep(_, _, _, _, _, _)
Sweep(sorted_events, k, start_time, end_time, current_time, available_slots) ==
    IF k > Len(sorted_events)
    THEN IF current_time.t < end_time.t
         THEN Append(available_slots, <<current_time, end_time>>)
         ELSE available_slots
    ELSE LET event == sorted_events[k]
             parsed_start == DT(event.start.t, event.start.z)
             parsed_end == DT(event.end.t, event.end.z)
             event_start == IF parsed_start.t < start_time.t THEN start_time ELSE parsed_start
             event_end == IF parsed_end.t > end_time.t THEN end_time ELSE parsed_end
             slots_now == IF current_time.t < event_start.t
                          THEN Append(available_slots, <<current_time, event_start>>)
                          ELSE available_slots
             cursor == AdvanceCursor(current_time, event_end)
         IN  Sweep(sorted_events, k + 1, start_time, end_time, cursor, slots_now)

(* get_available_time_slots failing closed: no slot when the source raises *)
get_available_time_slots_closed(start_time, end_time, cal) ==
    IF cal.raises THEN <<>>
    ELSE IF cal.events = <<>> THEN << <<start_time, end_time>> >>
    ELSE IF SortRaises(cal.events) THEN << <<start_time, end_time>> >>
    ELSE LET sorted_events ==
                 StableSort(cal.events, {p \in Pairs(cal.events) :
                                StartBefore(cal.events[p[1]], cal.events[p[2]])})
         IN  IF \E k \in 1..Len(sorted_events) :
                    \/ ParseRaises(sorted_events[k])
                    \/ CompareRaises(sorted_events[k], start_time, end_time)
             THEN << <<start_time, end_time>> >>
             ELSE Sweep(sorted_events, 1, start_time, end_time, start_time, <<>>)

(* cal is the answer of get_calendar_events: [raises, events] *)
get_available_time_slots(start_time, end_time, cal) ==
    IF cal.raises THEN << <<start_time, end_time>> >>
    ELSE IF cal.events = <<>> THEN << <<start_time, end_time>> >>
    ELSE IF SortRaises(cal.events) THEN << <<start_time, end_time>> >>
    ELSE LET sorted_events ==
                 StableSort(cal.events, {p \in Pairs(cal.events) :
                                StartBefore(cal.events[p[1]], cal.events[p[2]])})
         IN  IF \E k \in 1..Len(sorted_events) :
                    \/ ParseRaises(sorted_events[k])
                    \/ CompareRaises(sorted_events[k], start_time, end_time)
             THEN << <<start_time, end_time>> >>
             ELSE Sweep(sorted_events, 1, start_time, end_time, start_time, <<>>)

RECURSIVE SumMinutes(_, _)
SumMinutes(slot_list, k) ==
    IF k = 0 THEN 0
    ELSE SumMinutes(slot_list, k - 1)
            + TruncDiv(slot_list[k][2].t - slot_list[k][1].t, 60)

get_total_available_minutes(start_time, end_time, cal) ==
    LET slot_list == get_available_time_slots(start_time, end_time, cal)
    IN  SumMinutes(slot_list, Len(slot_list))

----------------------------------------------------------------------------
(* Task ranker *)

(* Skipped keeping only pending tasks out: the status test inverted *)
Skipped_pending(task) == task.status = "pending"

(* if task.status == TaskStatus.COMPLETED: continue *)
Skipped(task) == task.status = "completed"

(* Consult by truthiness: an explicit budget of 0 counts as absent *)
Consult_falsy(avail, period) == (avail = None \/ avail = Some(0)) /\ period # None

(* if actual_available_time is None and time_period: the resolver is asked *)
Consult(avail, period) == avail = None /\ period # None

RECURSIVE ScoreAll(_, _, _, _, _)
ScoreAll(ts, k, cur, domain_weights, time_now) ==
    IF k = 0 THEN <<>>
    ELSE LET rest == ScoreAll(ts, k - 1, cur, domain_weights, time_now)
         IN  IF Skipped(ts[k]) THEN rest
             ELSE Append(rest, ScoredTask(ts[k], cur, domain_weights, time_now))

TasksOf(ranked_tasks) == [k \in 1..Len(ranked_tasks) |-> ranked_tasks[k].task]

(* The outcome of one rank_tasks call: the returned list, the sorted
   ScoredTask list, whether an exception escaped, and how often the
   availability resolver was consulted *)
rank_tasks(ts, avail, cur, period, cal, time_now, env) ==
    IF ts = <<>>
    THEN [result |-> <<>>, scored |-> <<>>, raised |-> FALSE,
          actual_available_time |-> None, resolver_calls |-> 0]
    ELSE LET consult == Consult(avail, period)
             actual ==
                 IF consult
                 THEN Some(get_total_available_minutes(Val(period).start, Val(period).end, cal))
                 ELSE avail
             scored_tasks == ScoreAll(ts, Len(ts), cur, get_domain_weights(env), time_now)
             ranked_tasks ==
                 StableSort(scored_tasks, {p \in Pairs(scored_tasks) :
                                ScoreBefore(scored_tasks[p[1]], scored_tasks[p[2]])})
             calls == IF consult THEN 1 ELSE 0
         IN  IF actual # None
             THEN LET value_sorted ==
                          StableSort(ranked_tasks, {p \in Pairs(ranked_tasks) :
                                ValueBefore(ranked_tasks[p[1]], ranked_tasks[p[2]])})
                      selected == knapsack_task_selection(value_sorted, Val(actual))
                  IN  [result |-> selected.tasks, scored |-> ranked_tasks,
                       raised |-> selected.raised, actual_available_time |-> actual,
                       resolver_calls |-> calls]
             ELSE [result |-> TasksOf(ranked_tasks), scored |-> ranked_tasks,
                   raised |-> FALSE, actual_available_time |-> actual,
                   resolver_calls |-> calls]

(* domain_tasks: the tasks of the domain that are not completed, in input order *)
RECURSIVE DomainTasks(_, _)
DomainTasks(ts, domain) ==
    IF ts = <<>> THEN <<>>
    ELSE IF Head(ts).domain = domain /\ Head(ts).status # "completed"
         THEN <<Head(ts)>> \o DomainTasks(Tail(ts), domain)
         ELSE DomainTasks(Tail(ts), domain)

(* get_ranked_tasks_by_domain ranking the whole collection and filtering the
   returned list *)
get_ranked_tasks_by_domain_ranked_first(ts, domain, avail, cur, time_now, env) ==
    LET out == rank_tasks(ts, avail, cur, None, [raises |-> FALSE, events |-> <<>>],
                          time_now, env)
    IN  [out EXCEPT !.result = DomainTasks(out.result, domain)]

get_ranked_tasks_by_domain(ts, domain, avail, cur, time_now, env) ==
    rank_tasks(DomainTasks(ts, domain), avail, cur, None,
               [raises |-> FALSE, events |-> <<>>], time_now, env)

(* ranked[0] if ranked else None *)
recommend_next_task(ts, avail, cur, time_now, env) ==
    LET ranked == rank_tasks(ts, avail, cur, None, [raises |-> FALSE, events |-> <<>>],
                             time_now, env)
    IN  [ranked EXCEPT !.result = IF @ # <<>> THEN Some(@[1]) ELSE None]

----------------------------------------------------------------------------
(* Inputs *)

(* Monday 10:00 and Saturday 20:00 *)
NowPool == {10, 5 * 24 + 20}

Task(deadline, estimated_duration, domain, project_id, status, urgency_override) ==
    [id |-> 0, deadline |-> deadline, estimated_duration |-> estimated_duration,
     domain |-> domain, project_id |-> project_id, status |-> status,
     urgency_override |-> urgency_override]

(* Tasks a collection is made of.  The first three are the tasks of the
   ranking scenarios (deadline in 2 hours / in 3 days / none, seen from
   Monday 10:00); then a completed task, a task in progress, a task with a
   negative duration and a task pushed down by its urgency override. *)
TaskPool ==
    { Task(Some(12), 30, "work", Some(1), "pending", None),
      Task(Some(82), 60, "work", Some(1), "pending", None),
      Task(None, 5, "general_life", None, "pending", None),
      Task(Some(12), 5, "work", Some(2), "completed", None),
      Task(None, 30, "life_admin", None, "in_progress", None),
      Task(None, -10, "work", None, "pending", None),
      Task(None, 30, "work", None, "pending", Some(-20 * Scale)) }

(* A collection of n tasks; a task's id is its position *)
TaskLists ==
    UNION { { [k \in 1..n |-> [f[k] EXCEPT !.id = k]] : f \in [1..n -> TaskPool] } :
            n \in 0..MaxTasks }

(* TaskDomain *)
Domains == {"work", "life_admin", "general_life"}

CurrentPool == {None, Some(Task(Some(82), 60, "work", Some(1), "pending", None))}

RankBudgets == {None, Some(0), Some(35), Some(65)}

(* 09:00, 10:00, 17:00 as seconds of the day *)
T0900 == 9 * 3600

T1000 == 10 * 3600

T1700 == 17 * 3600

Event(start, end) == [start |-> start, end |-> end]

Answer(raises, events) == [raises |-> raises, events |-> events]

NoEvents == Answer(FALSE, <<>>)

(* rank_tasks: the window 09:00-10:00, and a calendar that fails, is empty,
   or holds the event 09:20-09:40 *)
RankWindows == {None, Some([start |-> DT(T0900, FALSE), end |-> DT(T1000, FALSE)])}

RankCalendars ==
    { Answer(TRUE, <<>>), NoEvents,
      Answer(FALSE, << Event(Iso(T0900 + 1200, FALSE), Iso(T0900 + 2400, FALSE)) >>) }

(* knapsack_task_selection called directly *)
KDurations == {0, 1, 2, 3}

KScores == {-1, 0, 2, 3}

ItemLists ==
    UNION { { [k \in 1..n |-> [task |-> [id |-> k, estimated_duration |-> f[k][1]],
                                score |-> f[k][2]]] :
              f \in [1..n -> KDurations \X KScores] } : n \in 0..MaxItems }

(* Availability resolver: windows, timestamps and events *)
Windows ==
    { [start |-> DT(T0900, aware), end |-> DT(T1700, aware)] : aware \in BOOLEAN }
    \cup { [start |-> DT(T0900, FALSE), end |-> DT(T0900 + 150, FALSE)] }

EventTimes ==
    {T0900 - 1800, T0900 + 30, T0900 + 90, T1000, 12 * 3600, 13 * 3600, T1700 + 1800}

WellFormedEvents ==
    { Event(Iso(s, z), Iso(e, z)) : <<s, e, z>> \in
        { x \in EventTimes \X EventTimes \X BOOLEAN : x[1] <= x[2] } }

MalformedEvents ==
    { Event(Bad, Iso(13 * 3600, FALSE)), Event(Iso(12 * 3600, FALSE), NoneField),
      Event(Missing, Iso(13 * 3600, FALSE)), Event(NoneField, Iso(13 * 3600, TRUE)) }

EventLists ==
    UNION { [1..n -> WellFormedEvents \cup MalformedEvents] : n \in 0..MaxEvents }

(* calculate_deadline_score: hours from now to the deadline *)
DeadlineOffsets ==
    {-1, 0, 1, 12, 23, 24, 25, 48, 72, 73, 100, 168, 169, 240, 720, 721, 2400,
     240000, 2400000}

(* Scenario A seen from the clock reading time_now: a task due in 2 hours, a
   task due in 3 days and a quick task without deadline, in any input order *)
ScenarioA(time_now) ==
    LET three == << Task(Some(time_now + 2), 30, "work", Some(1), "pending", None),
                    Task(Some(time_now + 72), 60, "work", Some(1), "pending", None),
                    Task(None, 5, "general_life", None, "pending", None) >>
        orders == { f \in [1..3 -> 1..3] : \A i, j \in 1..3 : f[i] = f[j] => i = j }
    IN  { [k \in 1..3 |-> [three[f[k]] EXCEPT !.id = k]] : f \in orders }

(* Every hour of the week *)
WeekHours == 0..(7 * 24 - 1)

(* Tasks that differ only in their urgency override: two tasks, each without
   override, with override 0, pushed down and pushed up *)
(* The override that, on Monday 10:00 and without a current task, gives the
   60-minute task of OverridePool twice the composite score of its 30-minute
   task, hence the same score per minute *)
TieOverride ==
    LET short == Task(Some(12), 30, "work", Some(1), "pending", None)
        long == Task(None, 60, "work", Some(1), "in_progress", None)
        weights == get_domain_weights(DefaultWeightsStr)
    IN  2 * ScoredTask(short, None, weights, 10).score
            - ScoredTask(long, None, weights, 10).score

OverridePool ==
    { Task(d[1], d[2], "work", Some(1), d[3], ov) :
        d \in { <<Some(12), 30, "pending">>, <<None, 60, "in_progress">> },
        ov \in { None, Some(0), Some(-20 * Scale), Some(2 * Scale) } }
    \cup { Task(None, 60, "work", Some(1), "in_progress", Some(TieOverride)) }

OverrideLists ==
    UNION { { [k \in 1..n |-> [f[k] EXCEPT !.id = k]] : f \in [1..n -> OverridePool] } :
            n \in 0..MaxTasks }

(* calculate_domain_priority_score: every half hour of the week; the three
   domains and one the mapping cannot hold; the default configuration, one
   without the work domain and one with another work weight *)
HalfHours == { 30 * k : k \in 0..(7 * 48 - 1) }

DomainArgs == Domains \cup {"unknown"}

DomainConfigs ==
    { DefaultWeightsStr, <<"life_admin", ":", "0.8">>, <<"work", ":", "2.5">> }

(* calculate_context_switch_score: the candidate, and the current task or None *)
ContextTasks ==
    { Task(None, 30, d, p, "pending", None) :
        d \in Domains, p \in {None, Some(1), Some(2)} }

(* calculate_duration_score: every band, both sides of every band edge, and
   the durations past 360 minutes that Log10Table covers *)
DurationGrid == (-5..361) \cup {480, 600, 960, 3000, 30000}

(* get_domain_weights: the tokens a configuration string is made of *)
WeightTokens == {"work", "life_admin", "2.5", "0.8", ":", ","}

(* Longer strings: the built-in default, the malformed string of the
   scenario, a domain listed twice and two domains *)
ConfigExamples ==
    { DefaultWeightsStr, <<"garbage">>,
      <<"work", ":", "2.5", ",", "work", ":", "0.8">>,
      <<"work", ":", "2.5", ",", "life_admin", ":", "0.8">>,
      <<"work", ":", "2.5", ",", "life_admin", ":", "0.8", ",", "garbage">> }

----------------------------------------------------------------------------
(* Initial states: the arguments of one call *)

(* ------------------------------------------------------------------------ *)
(* Web layer: admin login lockout (admin.py) and RateLimiter (utils.py).    *)
(* The clock is time.time() in seconds.                                     *)
(* ------------------------------------------------------------------------ *)

MaxClockSteps == 5

MaxRequests == 5

LOCKOUT_THRESHOLD == 5

LOCKOUT_DURATION == 30 * 60

(* The lockout model advances the clock ten minutes at a time *)
LockoutStep == 10 * 60

(* request.remote_addr: a remote client and the local host *)
IPs == {"203.0.113.7", "127.0.0.1"}

AdminConfigs == {"configured", "not_configured", "bad_hex"}

Credentials == {"right", "wrong"}

EmptyMap == [ip \in {} |-> 0]

(* dict assignment d[key] = value *)
Put(d, key, value) == [k \in DOMAIN d \cup {key} |-> IF k = key THEN value ELSE d[k]]

(* del d[key] *)
Del(d, key) == [k \in DOMAIN d \ {key} |-> d[k]]

(* cleanup_lockouts: entries whose timestamp is before the cutoff are deleted *)
cleanup_lockouts(entries, time) ==
    LET cutoff == time - LOCKOUT_DURATION
        kept == {ip \in DOMAIN entries : ~(entries[ip][2] < cutoff)}
    IN [ip \in kept |-> entries[ip]]

is_locked_out_above_threshold(entries, ip_address, time) ==
    LET cleaned == cleanup_lockouts(entries, time)
    IN IF ip_address \notin DOMAIN cleaned
       THEN [locked |-> FALSE, remaining |-> 0, login_attempts |-> cleaned]
       ELSE LET attempts == cleaned[ip_address][1]
                lockout_end == cleaned[ip_address][2] + LOCKOUT_DURATION
            IN IF attempts > LOCKOUT_THRESHOLD
               THEN IF time < lockout_end
                    THEN [locked |-> TRUE, remaining |-> lockout_end - time,
                          login_attempts |-> cleaned]
                    ELSE [locked |-> FALSE, remaining |-> 0,
                          login_attempts |-> Put(cleaned, ip_address, <<0, time>>)]
               ELSE [locked |-> FALSE, remaining |-> 0, login_attempts |-> cleaned]

(* is_locked_out: the answer (locked, remaining) and the dictionary it leaves *)
is_locked_out(entries, ip_address, time) ==
    LET cleaned == cleanup_lockouts(entries, time)
    IN IF ip_address \notin DOMAIN cleaned
       THEN [locked |-> FALSE, remaining |-> 0, login_attempts |-> cleaned]
       ELSE LET attempts == cleaned[ip_address][1]
                lockout_end == cleaned[ip_address][2] + LOCKOUT_DURATION
            IN IF attempts >= LOCKOUT_THRESHOLD
               THEN IF time < lockout_end
                    THEN [locked |-> TRUE, remaining |-> lockout_end - time,
                          login_attempts |-> cleaned]
                    ELSE [locked |-> FALSE, remaining |-> 0,
                          login_attempts |-> Put(cleaned, ip_address, <<0, time>>)]
               ELSE [locked |-> FALSE, remaining |-> 0, login_attempts |-> cleaned]

record_login_attempt(entries, ip_address, success, time) ==
    IF success
    THEN Del(entries, ip_address)
    ELSE IF ip_address \in DOMAIN entries
         THEN Put(entries, ip_address, <<entries[ip_address][1] + 1, time>>)
         ELSE Put(entries, ip_address, <<1, time>>)

(* process_login: the HTTP status it answers and the dictionary it leaves *)
process_login(entries, ip_address, config, credentials, time) ==
    LET check == is_locked_out(entries, ip_address, time)
        after == check.login_attempts
    IN IF check.locked
       THEN [status |-> 429, login_attempts |-> after]
       ELSE IF config = "not_configured"
       THEN [status |-> 500,
             login_attempts |-> record_login_attempt(after, ip_address, FALSE, time)]
       ELSE IF config = "bad_hex"
       THEN [status |-> 500, login_attempts |-> after]
       ELSE IF credentials # "right"
       THEN [status |-> 401,
             login_attempts |-> record_login_attempt(after, ip_address, FALSE, time)]
       ELSE [status |-> 200,
             login_attempts |-> record_login_attempt(after, ip_address, TRUE, time)]

(* RateLimiter configuration values and the whitelist init_app builds *)
RateLimitWindows == {2, 3}

RateLimitMaxRequests == {1, 2}

RateLimitBlockThresholds == {1, 2}

LocalWhitelist == {"127.0.0.1", "::1"}

(* Timestamps of a limits entry and the sum of their counts after the cutoff *)
RECURSIVE SumCounts(_, _)
SumCounts(counts, stamps) ==
    IF stamps = {} THEN 0
    ELSE LET ts == CHOOSE t \in stamps : TRUE
         IN counts[ts] + SumCounts(counts, stamps \ {ts})

(* RateLimiter._cleanup_expired: comparing the 'violations' key with the
   cutoff raises TypeError, and the entry is left as it was *)
cleanup_expired ==
    LET cutoff == clock - window
        Raises(ip) == limits[ip].violations # None
        Kept(ip) == {ts \in DOMAIN limits[ip].counts : ts > cutoff}
    IN IF \E ip \in DOMAIN limits : Raises(ip)
       THEN [raised |-> TRUE, limits |-> limits]
       ELSE [raised |-> FALSE,
             limits |-> [ip \in {i \in DOMAIN limits : Kept(i) # {}} |->
                           [counts |-> [ts \in Kept(ip) |-> limits[ip].counts[ts]],
                            violations |-> None]]]

(* The over-limit test of is_rate_limited *)
OverLimit(current_count) == current_count > max_requests

(* RateLimiter.is_rate_limited: its outcome, and limits and blocked after it *)
is_rate_limited(ip) ==
    IF ip \in whitelist
    THEN [outcome |-> "False", limits |-> limits, blocked |-> blocked]
    ELSE IF ip \in blocked
    THEN [outcome |-> "True", limits |-> limits, blocked |-> blocked]
    ELSE IF ip \notin DOMAIN limits
    THEN [outcome |-> "False",
          limits |-> Put(limits, ip, [counts |-> Put(EmptyMap, clock, 1),
                                      violations |-> None]),
          blocked |-> blocked]
    ELSE IF limits[ip].violations # None
    THEN [outcome |-> "TypeError", limits |-> limits, blocked |-> blocked]
    ELSE LET cutoff == clock - window
             counts == limits[ip].counts
             current_count ==
                 SumCounts(counts, {ts \in DOMAIN counts : ts > cutoff})
             added == IF clock \in DOMAIN counts
                      THEN Put(counts, clock, counts[clock] + 1)
                      ELSE Put(counts, clock, 1)
             violations == (IF limits[ip].violations = None
                            THEN 0 ELSE Val(limits[ip].violations)) + 1
         IN IF OverLimit(current_count)
            THEN [outcome |-> "True",
                  limits |-> Put(limits, ip, [counts |-> added,
                                              violations |-> Some(violations)]),
                  blocked |-> IF violations >= block_threshold
                              THEN blocked \cup {ip} ELSE blocked]
            ELSE [outcome |-> "False",
                  limits |-> Put(limits, ip, [counts |-> added, violations |-> None]),
                  blocked |-> blocked]

(* The web layer before any request *)
WebIdle ==
    /\ clock = 0
    /\ admin_config = "configured"
    /\ login_attempts = EmptyMap
    /\ response = None
    /\ failed_streak = [ip \in IPs |-> 0]
    /\ last_failed = [ip \in IPs |-> None]
    /\ window = 60
    /\ max_requests = 60
    /\ block_threshold = 5
    /\ whitelist = {}
    /\ limits = EmptyMap
    /\ blocked = {}
    /\ request_log = <<>>

(* Arguments of the entry points a specification does not call *)
OtherInputs ==
    /\ minutes_arg = 0
    /\ weights_str = DefaultWeightsStr
    /\ domain_arg = None
    /\ max_retries = 0
    /\ failures = 0
    /\ clock_minutes = 0

(* Arguments of the ranking entry points, when none of them is called *)
RankingIdle ==
    /\ tasks = <<>>
    /\ available_time = None
    /\ current_task = None
    /\ time_period = None
    /\ calendar = NoEvents
    /\ now = 0
    /\ items = <<>>
    /\ deadlines = <<>>

NoOutputs ==
    /\ pc = "ready"
    /\ result = <<>>
    /\ scored = <<>>
    /\ slots = <<>>
    /\ total_minutes = None
    /\ deadline_scores = <<>>
    /\ raised = FALSE
    /\ actual_available_time = None
    /\ resolver_calls = 0
    /\ duration_result = None
    /\ weights_result = None
    /\ retries = 0
    /\ invocations = 0
    /\ score_result = None

InitRank ==
    /\ fn = "rank_tasks"
    /\ tasks \in TaskLists
    /\ available_time \in RankBudgets
    /\ current_task \in CurrentPool
    /\ time_period \in RankWindows
    /\ calendar \in IF time_period = None THEN {NoEvents} ELSE RankCalendars
    /\ now \in NowPool
    /\ items = <<>>
    /\ deadlines = <<>>
    /\ OtherInputs
    /\ WebIdle
    /\ NoOutputs

InitKnapsack ==
    /\ fn = "knapsack_task_selection"
    /\ items \in ItemLists
    /\ available_time \in {Some(b) : b \in (-1)..MaxBudget}
    /\ tasks = <<>>
    /\ current_task = None
    /\ time_period = None
    /\ calendar = NoEvents
    /\ now = 0
    /\ deadlines = <<>>
    /\ OtherInputs
    /\ WebIdle
    /\ NoOutputs

InitSlots ==
    /\ fn \in {"get_available_time_slots", "get_total_available_minutes"}
    /\ time_period \in {Some(w) : w \in Windows}
    /\ calendar \in {Answer(TRUE, <<>>)} \cup {Answer(FALSE, evs) : evs \in EventLists}
    /\ tasks = <<>>
    /\ available_time = None
    /\ current_task = None
    /\ now = 0
    /\ items = <<>>
    /\ deadlines = <<>>
    /\ OtherInputs
    /\ WebIdle
    /\ NoOutputs

InitDeadline ==
    /\ fn = "calculate_deadline_score"
    /\ now \in NowPool
    /\ deadlines \in { <<d1, d2>> : <<d1, d2>> \in
            ({None} \cup {Some(now + h) : h \in DeadlineOffsets})
            \X ({None} \cup {Some(now + h) : h \in DeadlineOffsets}) }
    /\ tasks = <<>>
    /\ available_time = None
    /\ current_task = None
    /\ time_period = None
    /\ calendar = NoEvents
    /\ items = <<>>
    /\ OtherInputs
    /\ WebIdle
    /\ NoOutputs

InitByDomain ==
    /\ fn = "get_ranked_tasks_by_domain"
    /\ tasks \in TaskLists
    /\ domain_arg \in {Some(d) : d \in Domains}
    /\ available_time \in RankBudgets
    /\ current_task \in CurrentPool
    /\ now \in NowPool
    /\ time_period = None
    /\ calendar = NoEvents
    /\ items = <<>>
    /\ deadlines = <<>>
    /\ minutes_arg = 0
    /\ weights_str = DefaultWeightsStr
    /\ max_retries = 0
    /\ failures = 0
    /\ clock_minutes = 0
    /\ WebIdle
    /\ NoOutputs

InitRetry ==
    /\ fn = "retry_with_backoff"
    /\ max_retries \in 0..MaxRetries
    /\ failures \in 0..(MaxRetries + 1)
    /\ clock_minutes = 0
    /\ minutes_arg = 0
    /\ weights_str = DefaultWeightsStr
    /\ domain_arg = None
    /\ RankingIdle
    /\ WebIdle
    /\ NoOutputs

InitOverride ==
    /\ fn = "rank_tasks"
    /\ tasks \in OverrideLists
    /\ available_time \in {None, Some(65), Some(95)}
    /\ current_task \in CurrentPool
    /\ now \in NowPool
    /\ time_period = None
    /\ calendar = NoEvents
    /\ items = <<>>
    /\ deadlines = <<>>
    /\ OtherInputs
    /\ WebIdle
    /\ NoOutputs

InitDomain ==
    /\ fn = "calculate_domain_priority_score"
    /\ domain_arg \in {Some(d) : d \in DomainArgs}
    /\ weights_str \in DomainConfigs
    /\ clock_minutes \in HalfHours
    /\ minutes_arg = 0
    /\ max_retries = 0
    /\ failures = 0
    /\ RankingIdle
    /\ WebIdle
    /\ NoOutputs

InitContext ==
    /\ fn = "calculate_context_switch_score"
    /\ current_task \in {None} \cup {Some(t) : t \in ContextTasks}
    /\ tasks \in { <<t>> : t \in ContextTasks }
    /\ available_time = None
    /\ time_period = None
    /\ calendar = NoEvents
    /\ now = 0
    /\ items = <<>>
    /\ deadlines = <<>>
    /\ OtherInputs
    /\ WebIdle
    /\ NoOutputs

InitRecommend ==
    /\ fn = "recommend_next_task"
    /\ tasks \in TaskLists
    /\ available_time \in RankBudgets
    /\ current_task \in CurrentPool
    /\ now \in NowPool
    /\ time_period = None
    /\ calendar = NoEvents
    /\ items = <<>>
    /\ deadlines = <<>>
    /\ OtherInputs
    /\ WebIdle
    /\ NoOutputs

InitScenarioA ==
    /\ fn = "rank_tasks"
    /\ now \in WeekHours
    /\ tasks \in ScenarioA(now)
    /\ available_time = None
    /\ current_task = None
    /\ time_period = None
    /\ calendar = NoEvents
    /\ items = <<>>
    /\ deadlines = <<>>
    /\ OtherInputs
    /\ WebIdle
    /\ NoOutputs

InitDuration ==
    /\ fn = "calculate_duration_score"
    /\ minutes_arg \in DurationGrid
    /\ weights_str = DefaultWeightsStr
    /\ domain_arg = None
    /\ max_retries = 0
    /\ failures = 0
    /\ clock_minutes = 0
    /\ RankingIdle
    /\ WebIdle
    /\ NoOutputs

InitWeights ==
    /\ fn = "get_domain_weights"
    /\ \/ \E n \in 0..MaxTokens : weights_str \in [1..n -> WeightTokens]
       \/ weights_str \in ConfigExamples
    /\ minutes_arg = 0
    /\ domain_arg = None
    /\ max_retries = 0
    /\ failures = 0
    /\ clock_minutes = 0
    /\ RankingIdle
    /\ WebIdle
    /\ NoOutputs

----------------------------------------------------------------------------
(* Actions: the call runs *)

RankTasks ==
    /\ pc = "ready" /\ fn = "rank_tasks"
    /\ LET out == rank_tasks(tasks, available_time, current_task, time_period, calendar, now,
                          weights_str)
       IN  /\ result' = out.result
           /\ scored' = out.scored
           /\ raised' = out.raised
           /\ actual_available_time' = out.actual_available_time
           /\ resolver_calls' = out.resolver_calls
    /\ pc' = "done"
    /\ UNCHANGED <<inputs, web, other_outputs, slots, total_minutes, deadline_scores>>

GetRankedTasksByDomain ==
    /\ pc = "ready" /\ fn = "get_ranked_tasks_by_domain"
    /\ LET out == get_ranked_tasks_by_domain(tasks, Val(domain_arg), available_time,
                                             current_task, now, weights_str)
       IN  /\ result' = out.result
           /\ scored' = out.scored
           /\ raised' = out.raised
           /\ actual_available_time' = out.actual_available_time
           /\ resolver_calls' = out.resolver_calls
    /\ pc' = "done"
    /\ UNCHANGED <<inputs, web, other_outputs, slots, total_minutes, deadline_scores>>

(* result holds the recommendation: None, or Some(task) *)
RecommendNextTask ==
    /\ pc = "ready" /\ fn = "recommend_next_task"
    /\ \E out \in {recommend_next_task(tasks, available_time, current_task, now,
                                        weights_str)} :
           /\ result' = out.result
           /\ scored' = out.scored
           /\ raised' = out.raised
           /\ actual_available_time' = out.actual_available_time
           /\ resolver_calls' = out.resolver_calls
    /\ pc' = "done"
    /\ UNCHANGED <<inputs, web, other_outputs, slots, total_minutes, deadline_scores>>

KnapsackTaskSelection ==
    /\ pc = "ready" /\ fn = "knapsack_task_selection"
    /\ LET out == knapsack_task_selection(items, Val(available_time))
       IN  /\ result' = out.tasks
           /\ raised' = out.raised
    /\ pc' = "done"
    /\ UNCHANGED <<inputs, web, other_outputs, scored, slots, total_minutes, deadline_scores,
                   actual_available_time, resolver_calls>>

GetAvailableTimeSlots ==
    /\ pc = "ready" /\ fn = "get_available_time_slots"
    /\ slots' = get_available_time_slots(Val(time_period).start, Val(time_period).end, calendar)
    /\ pc' = "done"
    /\ UNCHANGED <<inputs, web, other_outputs, result, scored, total_minutes, deadline_scores, raised,
                   actual_available_time, resolver_calls>>

GetTotalAvailableMinutes ==
    /\ pc = "ready" /\ fn = "get_total_available_minutes"
    /\ slots' = get_available_time_slots(Val(time_period).start, Val(time_period).end, calendar)
    /\ total_minutes' =
            Some(get_total_available_minutes(Val(time_period).start, Val(time_period).end,
                                             calendar))
    /\ pc' = "done"
    /\ UNCHANGED <<inputs, web, other_outputs, result, scored, deadline_scores, raised,
                   actual_available_time, resolver_calls>>

CalculateDeadlineScore ==
    /\ pc = "ready" /\ fn = "calculate_deadline_score"
    /\ deadline_scores' =
            [k \in 1..Len(deadlines) |-> calculate_deadline_score(deadlines[k], now)]
    /\ pc' = "done"
    /\ UNCHANGED <<inputs, web, other_outputs, result, scored, slots, total_minutes, raised,
                   actual_available_time, resolver_calls>>

CalculateDurationScore ==
    /\ pc = "ready" /\ fn = "calculate_duration_score"
    /\ duration_result' = Some(calculate_duration_score(minutes_arg))
    /\ pc' = "done"
    /\ UNCHANGED <<inputs, web, score_result, weights_result, retries, invocations, result, scored,
                   slots,
                   total_minutes, deadline_scores, raised, actual_available_time,
                   resolver_calls>>

GetDomainWeights ==
    /\ pc = "ready" /\ fn = "get_domain_weights"
    /\ weights_result' = Some(get_domain_weights(weights_str))
    /\ pc' = "done"
    /\ UNCHANGED <<inputs, web, score_result, duration_result, retries, invocations, result, scored,
                   slots,
                   total_minutes, deadline_scores, raised, actual_available_time,
                   resolver_calls>>

(* time_of_day.hour and time_of_day.weekday() read the datetime cut down to
   the hour: the minutes of clock_minutes are dropped *)
CalculateDomainPriorityScore ==
    /\ pc = "ready" /\ fn = "calculate_domain_priority_score"
    /\ score_result' =
            Some(calculate_domain_priority_score(Val(domain_arg),
                    get_domain_weights(weights_str), clock_minutes \div 60))
    /\ pc' = "done"
    /\ UNCHANGED <<inputs, web, duration_result, weights_result, retries, invocations, result,
                   scored, slots, total_minutes, deadline_scores, raised,
                   actual_available_time, resolver_calls>>

CalculateContextSwitchScore ==
    /\ pc = "ready" /\ fn = "calculate_context_switch_score"
    /\ score_result' = Some(calculate_context_switch_score(current_task, tasks[1]))
    /\ pc' = "done"
    /\ UNCHANGED <<inputs, web, duration_result, weights_result, retries, invocations, result,
                   scored, slots, total_minutes, deadline_scores, raised,
                   actual_available_time, resolver_calls>>

(* retry_with_backoff: the wrapper around a function whose first `failures`
   invocations raise an exception of the retry_on type *)

(* The wrapped function raises on this invocation *)
FuncRaises(invocation) == invocation <= failures

(* One pass of the while loop: the wrapped function is invoked inside the try;
   it returns, or the handler counts the retry and either re-raises or goes
   to sleep *)
Attempt ==
    /\ pc = "ready" /\ fn = "retry_with_backoff"
    /\ retries < max_retries
    /\ invocations' = invocations + 1
    /\ IF FuncRaises(invocations + 1)
       THEN /\ retries' = retries + 1
            /\ IF retries + 1 >= max_retries
               THEN raised' = TRUE /\ pc' = "done"
               ELSE raised' = FALSE /\ pc' = "sleeping"
       ELSE /\ retries' = retries
            /\ raised' = FALSE
            /\ pc' = "done"
    /\ UNCHANGED <<inputs, web, score_result, duration_result, weights_result, result, scored,
                   slots,
                   total_minutes, deadline_scores, actual_available_time, resolver_calls>>

(* time.sleep(wait_time) returns and the loop tests its condition again *)
Sleep ==
    /\ pc = "sleeping" /\ fn = "retry_with_backoff"
    /\ pc' = "ready"
    /\ UNCHANGED <<inputs, web, other_outputs, result, scored, slots, total_minutes,
                   deadline_scores, raised, actual_available_time, resolver_calls>>

(* The loop condition is false: the call after the loop, outside any try *)
CallAfterLoop ==
    /\ pc = "ready" /\ fn = "retry_with_backoff"
    /\ ~(retries < max_retries)
    /\ invocations' = invocations + 1
    /\ raised' = FuncRaises(invocations + 1)
    /\ pc' = "done"
    /\ UNCHANGED <<inputs, web, score_result, duration_result, weights_result, retries, result, scored,
                   slots,
                   total_minutes, deadline_scores, actual_available_time, resolver_calls>>

----------------------------------------------------------------------------
(* Specifications: one per family of entry points *)

(* The admin login routes: no failure recorded yet *)
InitLockout ==
    /\ fn = "process_login"
    /\ RankingIdle
    /\ OtherInputs
    /\ clock = 0
    /\ admin_config \in AdminConfigs
    /\ login_attempts = EmptyMap
    /\ response = None
    /\ failed_streak = [ip \in IPs |-> 0]
    /\ last_failed = [ip \in IPs |-> None]
    /\ window = 60
    /\ max_requests = 60
    /\ block_threshold = 5
    /\ whitelist = {}
    /\ limits = EmptyMap
    /\ blocked = {}
    /\ request_log = <<>>
    /\ NoOutputs

(* A RateLimiter initialised with an application: configured limits, the
   local addresses whitelisted, nothing tracked or blocked yet *)
InitLimiter ==
    /\ fn = "is_rate_limited"
    /\ RankingIdle
    /\ OtherInputs
    /\ clock = 0
    /\ admin_config = "configured"
    /\ login_attempts = EmptyMap
    /\ response = None
    /\ failed_streak = [ip \in IPs |-> 0]
    /\ last_failed = [ip \in IPs |-> None]
    /\ window \in RateLimitWindows
    /\ max_requests \in RateLimitMaxRequests
    /\ block_threshold \in RateLimitBlockThresholds
    /\ whitelist = LocalWhitelist
    /\ limits = EmptyMap
    /\ blocked = {}
    /\ request_log = <<>>
    /\ NoOutputs

ranking_state == <<inputs, other_outputs, pc, result, scored, slots, total_minutes,
                   deadline_scores, raised, actual_available_time, resolver_calls>>

(* POST /login *)
ProcessLogin ==
    \E ip \in IPs, credentials \in Credentials :
        LET out == process_login(login_attempts, ip, admin_config, credentials, clock)
            within == /\ last_failed[ip] # None
                      /\ clock - Val(last_failed[ip]) < LOCKOUT_DURATION
        IN /\ login_attempts' = out.login_attempts
           /\ response' = Some([ip |-> ip, method |-> "POST", status |-> out.status,
                                locked |-> out.status = 429])
           /\ failed_streak' =
                  IF out.status = 401
                  THEN [failed_streak EXCEPT ![ip] = IF within THEN @ + 1 ELSE 1]
                  ELSE IF out.status = 200
                  THEN [failed_streak EXCEPT ![ip] = 0]
                  ELSE failed_streak
           /\ last_failed' = IF out.status = 401
                             THEN [last_failed EXCEPT ![ip] = Some(clock)]
                             ELSE last_failed
           /\ UNCHANGED <<ranking_state, clock, admin_config, limiter_state>>

(* GET /login *)
Login ==
    \E ip \in IPs :
        LET check == is_locked_out(login_attempts, ip, clock)
        IN /\ login_attempts' = check.login_attempts
           /\ response' = Some([ip |-> ip, method |-> "GET", status |-> 200,
                                locked |-> check.locked])
           /\ UNCHANGED <<ranking_state, clock, admin_config, failed_streak,
                          last_failed, limiter_state>>

(* Ten minutes pass between two requests to the login routes *)
LockoutTimePasses ==
    /\ clock < MaxClockSteps * LockoutStep
    /\ clock' = clock + LockoutStep
    /\ UNCHANGED <<ranking_state, lockout_state, limiter_state>>

(* A route guarded by rate_limit asks is_rate_limited for the caller *)
IsRateLimited ==
    \E ip \in IPs :
        LET out == is_rate_limited(ip)
        IN /\ Len(request_log) < MaxRequests
           /\ limits' = out.limits
           /\ blocked' = out.blocked
           /\ request_log' = Append(request_log, [time |-> clock, ip |-> ip,
                                                  outcome |-> out.outcome])
           /\ UNCHANGED <<ranking_state, clock, lockout_state, window, max_requests,
                          block_threshold, whitelist>>

(* The before_request hook installed by init_app *)
CleanupExpired ==
    /\ limits' = cleanup_expired.limits
    /\ UNCHANGED <<ranking_state, clock, lockout_state, window, max_requests,
                   block_threshold, whitelist, blocked, request_log>>

(* A second passes between two requests *)
Tick ==
    /\ clock < MaxClockSteps
    /\ clock' = clock + 1
    /\ UNCHANGED <<ranking_state, lockout_state, limiter_state>>

Init == InitRank \/ InitByDomain \/ InitRecommend

Next == RankTasks \/ GetRankedTasksByDomain \/ RecommendNextTask

Spec == Init /\ [][Next]_vars

NextKnapsack == KnapsackTaskSelection

SpecKnapsack == InitKnapsack /\ [][NextKnapsack]_vars

NextSlots == GetAvailableTimeSlots \/ GetTotalAvailableMinutes

SpecSlots == InitSlots /\ [][NextSlots]_vars

NextDeadline == CalculateDeadlineScore

SpecDeadline == InitDeadline /\ [][NextDeadline]_vars

NextScenarioA == RankTasks

SpecScenarioA == InitScenarioA /\ [][NextScenarioA]_vars

NextRetry == Attempt \/ Sleep \/ CallAfterLoop

SpecRetry == InitRetry /\ [][NextRetry]_vars

NextOverride == RankTasks

SpecOverride == InitOverride /\ [][NextOverride]_vars

NextDomain == CalculateDomainPriorityScore

SpecDomain == InitDomain /\ [][NextDomain]_vars

NextContext == CalculateContextSwitchScore

SpecContext == InitContext /\ [][NextContext]_vars

NextDuration == CalculateDurationScore

SpecDuration == InitDuration /\ [][NextDuration]_vars

NextWeights == GetDomainWeights

SpecWeights == InitWeights /\ [][NextWeights]_vars

NextLockout == ProcessLogin \/ Login \/ LockoutTimePasses

SpecLockout == InitLockout /\ [][NextLockout]_vars

NextLimiter == IsRateLimited \/ CleanupExpired \/ Tick

SpecLimiter == InitLimiter /\ [][NextLimiter]_vars

(* The capacity selector called directly and through rank_tasks *)
InitSelection == InitKnapsack \/ InitRank

NextSelection == KnapsackTaskSelection \/ RankTasks

SpecSelection == InitSelection /\ [][NextSelection]_vars

(* rank_tasks on the collections of both pools *)
InitRanking == InitRank \/ InitOverride

NextRanking == RankTasks

SpecRanking == InitRanking /\ [][NextRanking]_vars

----------------------------------------------------------------------------
(* Vocabulary of the properties *)

Returned(f) == pc = "done" /\ fn = f

RECURSIVE TotalDuration(_)
TotalDuration(ts) ==
    IF ts = <<>> THEN 0 ELSE Head(ts).estimated_duration + TotalDuration(Tail(ts))

(* The budget a rank_tasks call is to respect, from its arguments *)
EffectiveBudget ==
    IF available_time # None THEN available_time
    ELSE IF time_period # None
    THEN Some(get_total_available_minutes(Val(time_period).start, Val(time_period).end,
                                          calendar))
    ELSE None

PositiveDurations == \A k \in 1..Len(tasks) : tasks[k].estimated_duration > 0

NotCompleted == {k \in 1..Len(tasks) : tasks[k].status # "completed"}

(* The composite score of an input task in this call *)
CompositeScore(task) == ScoredTask(task, current_task, get_domain_weights(weights_str), now).score

ResultIds == {result[k].id : k \in 1..Len(result)}

----------------------------------------------------------------------------
(* C1. Budget feasibility: when rank_tasks returns for a collection of tasks
   with positive durations and an effective budget B >= 0 (explicit or
   derived from the window), the durations of the returned tasks sum to at
   most B, and to nothing when B = 0. *)
C1_BudgetFeasibility ==
    (Returned("rank_tasks") /\ PositiveDurations /\ EffectiveBudget # None
        /\ Val(EffectiveBudget) >= 0)
    => /\ ~raised
       /\ TotalDuration(result) <= Val(EffectiveBudget)
       /\ (Val(EffectiveBudget) = 0 => result = <<>>)

(* A budgeted call that fills its budget exactly and leaves out a task that
   would fit on its own *)
C1_Witness ==
    /\ Returned("rank_tasks") /\ PositiveDurations
    /\ EffectiveBudget = Some(35)
    /\ TotalDuration(result) = 35
    /\ \E k \in NotCompleted : k \notin ResultIds /\ tasks[k].estimated_duration <= 35

----------------------------------------------------------------------------
(* C2. Optimality of the capacity selector: for items with positive
   durations in any order and a budget B >= 1, the total score of the tasks
   knapsack_task_selection returns is the largest total score of any subset
   of the items whose durations sum to at most B. *)
RECURSIVE SumOver(_, _)
SumOver(S, f) ==
    IF S = {} THEN 0
    ELSE LET x == CHOOSE y \in S : TRUE IN f[x] + SumOver(S \ {x}, f)

ItemDuration == [k \in 1..Len(items) |-> items[k].task.estimated_duration]

ItemScore == [k \in 1..Len(items) |-> items[k].score]

Feasible(B) == {S \in SUBSET (1..Len(items)) : SumOver(S, ItemDuration) <= B}

BestScore(B) ==
    CHOOSE best \in {SumOver(S, ItemScore) : S \in Feasible(B)} :
        \A S \in Feasible(B) : SumOver(S, ItemScore) <= best

PositiveItems == \A k \in 1..Len(items) : items[k].task.estimated_duration > 0

C2_Optimality ==
    (Returned("knapsack_task_selection") /\ PositiveItems /\ Val(available_time) >= 1)
    => /\ ~raised
       /\ SumOver(ResultIds, ItemScore) = BestScore(Val(available_time))
       /\ Cardinality(ResultIds) = Len(result)

(* The selector passes over a first item that fits and has a positive score,
   because a later combination is worth more *)
C2_Witness ==
    /\ Returned("knapsack_task_selection") /\ PositiveItems
    /\ Val(available_time) >= 1
    /\ Len(items) = 3
    /\ items[1].score > 0 /\ items[1].task.estimated_duration <= Val(available_time)
    /\ ResultIds = {2, 3}

----------------------------------------------------------------------------
(* C3. Completed-task exclusion: whatever the budget, current task and
   window, no task whose status is completed is in the list rank_tasks
   returns. *)
C3_CompletedExcluded ==
    Returned("rank_tasks") => \A k \in 1..Len(result) : result[k].status # "completed"

(* A collection with a completed task, ranked to a non-empty list, with and
   without a budget *)
C3_Witness ==
    /\ Returned("rank_tasks")
    /\ \E k \in 1..Len(tasks) : tasks[k].status = "completed"
    /\ Len(result) = 2
    /\ EffectiveBudget # None

----------------------------------------------------------------------------
(* C4. Presentation order under a budget: when rank_tasks runs with an
   effective budget, the returned tasks are in non-increasing order of
   composite score. *)
C4_ScoreOrderUnderBudget ==
    (Returned("rank_tasks") /\ EffectiveBudget # None /\ ~raised)
    => \A i, j \in 1..Len(result) :
            i < j => CompositeScore(result[i]) >= CompositeScore(result[j])

----------------------------------------------------------------------------
(* C5. Unbudgeted ordering: without an explicit budget and without a window,
   rank_tasks returns every non-completed input task exactly once, in
   non-increasing order of composite score, tasks of equal score in their
   input order. *)
C5_UnbudgetedOrder ==
    (Returned("rank_tasks") /\ available_time = None /\ time_period = None)
    => /\ ~raised
       /\ Len(result) = Cardinality(NotCompleted)
       /\ ResultIds = NotCompleted
       /\ \A k \in 1..Len(result) : result[k] = tasks[result[k].id]
       /\ \A i, j \in 1..Len(result) :
            i < j => \/ CompositeScore(result[i]) > CompositeScore(result[j])
                     \/ /\ CompositeScore(result[i]) = CompositeScore(result[j])
                        /\ result[i].id < result[j].id

(* An unbudgeted ranking that moves a later task to the front, keeps two
   tasks of equal score in input order, and contains a task in progress *)
C5_Witness ==
    /\ Returned("rank_tasks") /\ available_time = None /\ time_period = None
    /\ Len(result) = 3
    /\ result[1].id = 3
    /\ CompositeScore(result[2]) = CompositeScore(result[3])
    /\ \E k \in 1..3 : result[k].status = "in_progress"

----------------------------------------------------------------------------
(* C6. Budget resolution in rank_tasks. *)

(* The budget knapsack selection runs with, once the call has got as far as
   resolving one *)
BudgetIs(b) == tasks # <<>> => actual_available_time = b

WindowMinutes ==
    get_total_available_minutes(Val(time_period).start, Val(time_period).end, calendar)

ExplicitBudgetWins ==
    available_time # None => resolver_calls = 0 /\ BudgetIs(available_time)

NoBudgetRanksAll ==
    (available_time = None /\ time_period = None)
    => /\ resolver_calls = 0
       /\ BudgetIs(None)
       /\ ResultIds = NotCompleted /\ Len(result) = Cardinality(NotCompleted)

(* C6 as claimed: an explicit budget (0 included) takes precedence and the
   resolver is not consulted; with no explicit budget and a window the
   budget is the resolver's free minutes for that window and the resolver is
   consulted exactly once; with neither, every non-completed task is
   returned. *)
C6_BudgetResolution_Original ==
    Returned("rank_tasks")
    => /\ ExplicitBudgetWins
       /\ (available_time = None /\ time_period # None)
            => resolver_calls = 1 /\ BudgetIs(Some(WindowMinutes))
       /\ NoBudgetRanksAll

(* C6 as amended: the same, the window case for a non-empty collection; for
   an empty collection rank_tasks returns the empty list without consulting
   the resolver. *)
C6_BudgetResolution ==
    Returned("rank_tasks")
    => /\ ExplicitBudgetWins
       /\ (available_time = None /\ time_period # None /\ tasks # <<>>)
            => resolver_calls = 1 /\ actual_available_time = Some(WindowMinutes)
       /\ tasks = <<>> => resolver_calls = 0 /\ result = <<>>
       /\ NoBudgetRanksAll

(* A call with a window only: the calendar holds a 20-minute event, the
   budget is the 40 free minutes and the selection is made under it *)
C6_Witness ==
    /\ Returned("rank_tasks")
    /\ available_time = None /\ time_period # None /\ calendar.events # <<>>
    /\ resolver_calls = 1
    /\ actual_available_time = Some(40)
    /\ TotalDuration(result) = 35
    /\ \E k \in 1..Len(tasks) : tasks[k].estimated_duration = 60

----------------------------------------------------------------------------
(* C7. Deadline monotonicity: at one clock reading, of two deadlines
   d1 < d2 the earlier never gets the strictly lower deadline score. *)
C7_DeadlineMonotone ==
    (Returned("calculate_deadline_score")
        /\ deadlines[1] # None /\ deadlines[2] # None
        /\ Val(deadlines[1]) < Val(deadlines[2]))
    => deadline_scores[1] >= deadline_scores[2]

----------------------------------------------------------------------------
(* C8. Malformed durations never raise: a rank_tasks call with an effective
   budget B >= 1 on a collection holding a non-completed task of negative
   duration returns a list; no exception reaches the caller. *)
C8_NegativeDurationReturns ==
    (Returned("rank_tasks")
        /\ EffectiveBudget # None /\ Val(EffectiveBudget) >= 1
        /\ \E k \in NotCompleted : tasks[k].estimated_duration < 0)
    => ~raised

----------------------------------------------------------------------------
(* C9. Fail-open availability: when the calendar source raises or has no
   event for the window, get_available_time_slots returns the one slot
   (start, end) and get_total_available_minutes the length of the window in
   minutes: 480 for 09:00-17:00. *)
Window == Val(time_period)

SlotsCall == pc = "done" /\ fn \in {"get_available_time_slots", "get_total_available_minutes"}

C9_FailOpen ==
    (SlotsCall /\ (calendar.raises \/ calendar.events = <<>>))
    => /\ slots = << <<Window.start, Window.end>> >>
       /\ ~raised
       /\ fn = "get_total_available_minutes"
            => /\ total_minutes = Some(TruncDiv(Window.end.t - Window.start.t, 60))
               /\ (Window.start.t = T0900 /\ Window.end.t = T1700)
                    => total_minutes = Some(480)

(* The calendar source raises for the window 09:00-17:00 and 480 minutes are
   reported free *)
C9_Witness ==
    /\ Returned("get_total_available_minutes")
    /\ calendar.raises
    /\ Window.start.t = T0900 /\ Window.end.t = T1700
    /\ Len(slots) = 1
    /\ total_minutes = Some(480)

----------------------------------------------------------------------------
(* C10. Malformed calendar events are skipped one by one: when the event
   list holds an event with a missing or unparseable start or end next to
   well-formed events, get_available_time_slots returns the slots it returns
   for the list without the malformed events. *)
WellFormed(event) == ~ParseRaises(event)

C10_MalformedSkipped ==
    (Returned("get_available_time_slots") /\ ~calendar.raises
        /\ (\E k \in 1..Len(calendar.events) : ~WellFormed(calendar.events[k]))
        /\ (\E k \in 1..Len(calendar.events) : WellFormed(calendar.events[k]))
        /\ \A k \in 1..Len(calendar.events) :
                WellFormed(calendar.events[k])
                => ~CompareRaises(calendar.events[k], Window.start, Window.end))
    => slots = get_available_time_slots(Window.start, Window.end,
                    Answer(FALSE, SelectSeq(calendar.events, WellFormed)))

----------------------------------------------------------------------------
(* C11: for every estimated duration greater than 360 minutes,
   calculate_duration_score returns a value that is at least 1.0 and at most
   2.0, the value of the 6-hour band *)
C11_LongTaskCapped ==
    (Returned("calculate_duration_score") /\ minutes_arg > 360)
        => (1 * Scale <= Val(duration_result) /\ Val(duration_result) <= 2 * Scale)

----------------------------------------------------------------------------
(* The comma-separated items of the configuration string *)
ConfigItems == Split(weights_str, ",")

ColonsAt(item) == { k \in 1..Len(item) : item[k] = ":" }

(* An item domain:weight: exactly one colon, followed by a numeral *)
WellFormedItem(item) ==
    /\ Cardinality(ColonsAt(item)) = 1
    /\ LET c == CHOOSE k \in ColonsAt(item) : TRUE
       IN  Text(SubSeq(item, c + 1, Len(item))) \in {"1.0", "0.8", "0.6", "2.5"}

ListedDomain(item) ==
    LET c == CHOOSE k \in ColonsAt(item) : TRUE IN Text(SubSeq(item, 1, c - 1))

ListedWeight(item) ==
    LET c == CHOOSE k \in ColonsAt(item) : TRUE
        text == Text(SubSeq(item, c + 1, Len(item)))
    IN  IF text = "1.0" THEN Scale
        ELSE IF text = "0.8" THEN (8 * Scale) \div 10
        ELSE IF text = "0.6" THEN (6 * Scale) \div 10
        ELSE (25 * Scale) \div 10

(* C12: get_domain_weights parses a well-formed string into exactly the listed
   domain-to-weight mapping (a domain listed twice keeps its last weight), and
   for a string with at least one malformed item (no colon, more than one
   colon, a non-numeric weight; the empty string included) it returns exactly
   the defaults work 1.0, life_admin 0.8, general_life 0.6, without raising *)
C12_WeightsParsedOrDefault ==
    Returned("get_domain_weights") =>
        /\ ~raised
        /\ IF \A k \in 1..Len(ConfigItems) : WellFormedItem(ConfigItems[k])
           THEN LET w == Val(weights_result)
                IN  /\ DOMAIN w = { ListedDomain(ConfigItems[k]) : k \in 1..Len(ConfigItems) }
                    /\ \A k \in 1..Len(ConfigItems) :
                          (\A j \in (k + 1)..Len(ConfigItems) :
                               ListedDomain(ConfigItems[j]) # ListedDomain(ConfigItems[k]))
                          => w[ListedDomain(ConfigItems[k])] = ListedWeight(ConfigItems[k])
           ELSE Val(weights_result) =
                    [work |-> Scale, life_admin |-> (8 * Scale) \div 10,
                     general_life |-> (6 * Scale) \div 10]

(* A string with a well-formed item and a malformed one was parsed *)
C12_Witness ==
    /\ Returned("get_domain_weights")
    /\ \E k \in 1..Len(ConfigItems) : WellFormedItem(ConfigItems[k])
    /\ \E k \in 1..Len(ConfigItems) : ~WellFormedItem(ConfigItems[k])
    /\ weights_str # <<>>

----------------------------------------------------------------------------
(* The duration of every task exceeds the budget *)
NothingFits == \A k \in 1..Len(items) : items[k].task.estimated_duration > Val(available_time)

(* C13: knapsack_task_selection returns an empty list whenever the budget is
   <= 0, whenever the input list is empty, and whenever the duration of every
   task exceeds the budget *)
C13_DegenerateCapacity ==
    (/\ Returned("knapsack_task_selection")
     /\ (Val(available_time) <= 0 \/ items = <<>> \/ NothingFits))
    => (~raised /\ result = <<>>)

(* A positive budget that every task of a non-empty list of positively
   scored tasks exceeds *)
C13_Witness ==
    /\ Returned("knapsack_task_selection")
    /\ Val(available_time) >= 1 /\ items # <<>> /\ NothingFits
    /\ \A k \in 1..Len(items) : items[k].score > 0
    /\ result = <<>>

----------------------------------------------------------------------------
(* C14: Scenario A.  For the three pending tasks (deadline in 2 hours, 30 min,
   work), (deadline in 3 days, 60 min, work), (no deadline, 5 min,
   general_life), with default weights, no override, no current task and no
   budget, rank_tasks places the 2-hour-deadline task first at every weekday
   and hour of day *)
C14_ScenarioA ==
    Returned("rank_tasks") =>
        /\ ~raised
        /\ Len(result) = 3
        /\ result[1].deadline = Some(now + 2)

(* Saturday 20:00, when general_life is boosted and work is not, with the
   2-hour task last in the input *)
C14_Witness ==
    /\ Returned("rank_tasks")
    /\ now = 5 * 24 + 20
    /\ tasks[3].deadline = Some(now + 2)
    /\ result[1].id = 3

----------------------------------------------------------------------------
(* The input positions of the tasks of the domain asked for that are not
   completed, and the sub-collection they make, in input order *)
DomainPositions ==
    { k \in 1..Len(tasks) :
        tasks[k].domain = Val(domain_arg) /\ tasks[k].status # "completed" }

SubCollection ==
    [ k \in 1..Cardinality(DomainPositions) |->
        tasks[CHOOSE j \in DomainPositions :
                  Cardinality({h \in DomainPositions : h < j}) = k - 1] ]

RankedSubCollection ==
    rank_tasks(SubCollection, available_time, current_task, None, NoEvents, now, weights_str)

(* C16: get_ranked_tasks_by_domain(tasks, d, B, cur) returns exactly
   rank_tasks applied to the sub-collection of the tasks whose domain is d and
   whose status is not completed, in input order, with the same B and cur;
   every returned task has domain d, and the tasks of other domains never
   consume budget *)
C16_DomainFiltered ==
    Returned("get_ranked_tasks_by_domain") =>
        /\ result = RankedSubCollection.result
        /\ raised = RankedSubCollection.raised
        /\ \A k \in 1..Len(result) : result[k].domain = Val(domain_arg)
        /\ (~raised /\ available_time # None
              /\ \A k \in DomainPositions : tasks[k].estimated_duration > 0)
           => TotalDuration(result) <= Val(available_time)

(* Under a budget, a task of the domain is returned that ranking the whole
   collection would have displaced by a task of another domain *)
C16_Witness ==
    /\ Returned("get_ranked_tasks_by_domain")
    /\ available_time # None /\ ~raised
    /\ result # <<>>
    /\ LET whole == rank_tasks(tasks, available_time, current_task, None, NoEvents, now,
                               weights_str)
       IN  /\ ~whole.raised
           /\ \E k \in 1..Len(whole.result) : whole.result[k].domain # Val(domain_arg)
           /\ \A k \in 1..Len(whole.result) : whole.result[k].id # result[1].id

----------------------------------------------------------------------------
(* C17: a function wrapped with retry_with_backoff(max_retries=N) that raises
   on its first N invocations and succeeds on invocation N+1 returns that
   result to the caller; the exception is propagated only after N retries,
   that is N+1 invocations, have failed *)
C17_RetryCount ==
    Returned("retry_with_backoff") =>
        /\ failures = max_retries => (~raised /\ invocations = max_retries + 1)
        /\ raised => invocations = max_retries + 1

----------------------------------------------------------------------------
(* The calendar answered with well-formed events only *)
AnsweredWellFormed ==
    /\ ~calendar.raises
    /\ \A k \in 1..Len(calendar.events) :
          /\ WellFormed(calendar.events[k])
          /\ calendar.events[k].start.t <= calendar.events[k].end.t

(* Event k lies strictly inside the window *)
StrictlyInside(k) ==
    /\ Window.start.t < calendar.events[k].start.t
    /\ calendar.events[k].start.t < calendar.events[k].end.t
    /\ calendar.events[k].end.t < Window.end.t

(* The slots as pairs of instants *)
SlotTimes == [k \in 1..Len(slots) |-> <<slots[k][1].t, slots[k][2].t>>]

(* C18: with timezone-naive window bounds and events whose start and end
   strings end in 'Z', get_available_time_slots still subtracts the events: a
   single event strictly inside the window yields exactly the two slots
   (window start, event start) and (event end, window end), and two mutually
   overlapping events inside the window yield exactly two slots *)
C18_NaiveWindowZEvents ==
    (/\ SlotsCall /\ AnsweredWellFormed
     /\ ~Window.start.aware /\ ~Window.end.aware
     /\ \A k \in 1..Len(calendar.events) :
           /\ calendar.events[k].start.z /\ calendar.events[k].end.z
           /\ StrictlyInside(k))
    => /\ Len(calendar.events) = 1
            => SlotTimes = << <<Window.start.t, calendar.events[1].start.t>>,
                              <<calendar.events[1].end.t, Window.end.t>> >>
       /\ (/\ Len(calendar.events) = 2
           /\ calendar.events[1].start.t < calendar.events[2].end.t
           /\ calendar.events[2].start.t < calendar.events[1].end.t)
            => Len(slots) = 2

----------------------------------------------------------------------------
(* The candidates are in the order rank_tasks passes them: score per minute,
   score / max(1, duration), descending *)
ValueOrdered ==
    \A i, j \in 1..Len(items) : i < j => ~ValueBefore(items[j], items[i])

NonNegativeItems == \A k \in 1..Len(items) : items[k].task.estimated_duration >= 0

(* C19: for every input list with non-negative integer durations (duration 0
   allowed) in score-per-minute order and every budget B >= 1, the total
   score of the subset knapsack_task_selection returns equals the maximum
   total score over all subsets with total duration <= B; a zero-duration
   task with positive score is selected together with tasks that fill the
   budget exactly *)
C19_OptimalWithZeroDurations ==
    (/\ Returned("knapsack_task_selection")
     /\ NonNegativeItems /\ ValueOrdered
     /\ Val(available_time) >= 1)
    => /\ ~raised
       /\ SumOver(ResultIds, ItemScore) = BestScore(Val(available_time))

----------------------------------------------------------------------------
(* C20: for every window and every list of events with start <= end, the
   returned slots have positive length, are in ascending order, are pairwise
   disjoint and lie inside the window, so the total free minutes never
   exceed the window length *)
C20_SlotsWellFormed ==
    (SlotsCall /\ AnsweredWellFormed)
    => /\ \A k \in 1..Len(slots) :
             /\ slots[k][1].t < slots[k][2].t
             /\ Window.start.t <= slots[k][1].t
             /\ slots[k][2].t <= Window.end.t
       /\ \A k \in 1..(Len(slots) - 1) : slots[k][2].t <= slots[k + 1][1].t
       /\ SumMinutes(slots, Len(slots)) <= TruncDiv(Window.end.t - Window.start.t, 60)

----------------------------------------------------------------------------
(* The window, its events and the slots on the minute grid *)
WholeMinutes ==
    /\ Window.start.t % 60 = 0 /\ Window.end.t % 60 = 0
    /\ \A k \in 1..Len(calendar.events) :
          calendar.events[k].start.t % 60 = 0 /\ calendar.events[k].end.t % 60 = 0

(* Every event is comparable with the window bounds, is not empty and
   intersects the window *)
EventsMeetWindow ==
    \A k \in 1..Len(calendar.events) :
        /\ calendar.events[k].start.z = Window.start.aware
        /\ calendar.events[k].end.z = Window.end.aware
        /\ calendar.events[k].start.t < calendar.events[k].end.t
        /\ calendar.events[k].start.t < Window.end.t
        /\ calendar.events[k].end.t > Window.start.t

WindowMinuteSet == (Window.start.t \div 60)..((Window.end.t \div 60) - 1)

(* The minute [m, m+1) is inside an event *)
Busy(m) ==
    \E k \in 1..Len(calendar.events) :
        calendar.events[k].start.t <= m * 60 /\ m * 60 < calendar.events[k].end.t

(* The minute [m, m+1) is inside slot k *)
InSlot(k, m) == slots[k][1].t <= m * 60 /\ m * 60 < slots[k][2].t

(* C21: for comparable whole-minute timestamps and a non-empty list of events
   with start < end that each intersect the window, the union of the slots
   get_available_time_slots returns is the window minus the union of the
   events: no slot overlaps an event, no free minute is omitted, no minute is
   in two slots; and get_total_available_minutes is the window length minus
   the length of the union of the clipped events *)
C21_SlotsAreComplement ==
    (/\ SlotsCall /\ AnsweredWellFormed
     /\ calendar.events # <<>>
     /\ WholeMinutes /\ EventsMeetWindow)
    => /\ \A k \in 1..Len(slots) :
             /\ slots[k][1].t % 60 = 0 /\ slots[k][2].t % 60 = 0
             /\ Window.start.t <= slots[k][1].t /\ slots[k][2].t <= Window.end.t
       /\ \A m \in WindowMinuteSet :
             /\ Busy(m) <=> ~(\E k \in 1..Len(slots) : InSlot(k, m))
             /\ Cardinality({k \in 1..Len(slots) : InSlot(k, m)}) <= 1
       /\ fn = "get_total_available_minutes"
            => total_minutes = Some(Cardinality({m \in WindowMinuteSet : ~Busy(m)}))

(* Two events, the second inside the first, which starts before the window:
   the free time is what follows the first *)
C21_Witness ==
    /\ Returned("get_total_available_minutes")
    /\ AnsweredWellFormed /\ WholeMinutes /\ EventsMeetWindow
    /\ Len(calendar.events) = 2
    /\ \E i, j \in 1..2 :
          /\ calendar.events[i].start.t < Window.start.t
          /\ calendar.events[i].start.t < calendar.events[j].start.t
          /\ calendar.events[j].end.t < calendar.events[i].end.t
          /\ calendar.events[i].end.t < Window.end.t
    /\ Len(slots) = 1
    /\ total_minutes = Some(240)

----------------------------------------------------------------------------
(* The urgency override of a task, an absent one counted as 0 *)
OverrideOf(task) == IF task.urgency_override = None THEN 0 ELSE Val(task.urgency_override)

(* The two tasks differ in nothing but their override (and identity) *)
SameButOverride(a, b) ==
    [a EXCEPT !.id = 0, !.urgency_override = None]
        = [b EXCEPT !.id = 0, !.urgency_override = None]

(* C22: for every non-completed task the score used for ordering and as
   knapsack value is 0.5*deadline_score + 0.25*duration_score +
   0.15*domain_score + 0.1*context_score + urgency_override, an absent
   override counted as 0; so of two tasks that differ only in their override
   the one with the larger override is never after the other in an
   unbudgeted ranking *)
C22_CompositeScore ==
    Returned("rank_tasks") =>
        /\ ~raised
        /\ Len(scored) = Cardinality(NotCompleted)
        /\ \A k \in 1..Len(scored) :
              LET task == scored[k].task
              IN  100 * scored[k].score =
                      50 * calculate_deadline_score(task.deadline, now)
                    + 25 * calculate_duration_score(task.estimated_duration)
                    + 15 * calculate_domain_priority_score(
                               task.domain, get_domain_weights(weights_str), now)
                    + 10 * calculate_context_switch_score(current_task, task)
                    + 100 * OverrideOf(task)
        /\ available_time = None =>
              \A i, j \in 1..Len(result) :
                  (/\ SameButOverride(result[i], result[j])
                   /\ OverrideOf(result[i]) > OverrideOf(result[j])) => i < j

(* The same task three times, the raised one given last and the lowered one
   first: the ranking returns them in the order of their overrides *)
C22_Witness ==
    /\ Returned("rank_tasks") /\ available_time = None
    /\ Len(tasks) = 3
    /\ SameButOverride(tasks[1], tasks[2]) /\ SameButOverride(tasks[2], tasks[3])
    /\ OverrideOf(tasks[1]) < 0 /\ tasks[2].urgency_override = None
    /\ OverrideOf(tasks[3]) > 0
    /\ <<result[1].id, result[2].id, result[3].id>> = <<3, 2, 1>>

----------------------------------------------------------------------------
(* The score x lies in the band [lo, hi] *)
InBand(x, lo, hi) == lo * Scale <= x /\ x <= hi * Scale

(* The band of the k-th deadline scored, and its value on a tier boundary *)
DeadlineBand(k) ==
    IF deadlines[k] = None THEN deadline_scores[k] = 5 * Scale
    ELSE LET h == Val(deadlines[k]) - now
             x == deadline_scores[k]
         IN  /\ h < 0 => x = 10 * Scale
             /\ (0 <= h /\ h <= 24) => InBand(x, 7, 9)
             /\ (24 < h /\ h <= 72) => InBand(x, 6, 8)
             /\ (72 < h /\ h <= 168) => InBand(x, 4, 7)
             /\ (168 < h /\ h <= 720) => InBand(x, 2, 5)
             /\ h > 720 => InBand(x, 1, 3)
             /\ h = 0 => x = 9 * Scale
             /\ h = 24 => x = 7 * Scale
             /\ h = 72 => x = 6 * Scale
             /\ h = 168 => x = 4 * Scale
             /\ h = 720 => (2784 * Scale <= 1000 * x /\ 1000 * x <= 2785 * Scale)

(* C23: calculate_deadline_score returns 5.0 for no deadline and 10.0 for a
   deadline before now; for h hours to the deadline a value in [7.0, 9.0]
   when 0 <= h <= 24, in [6.0, 8.0] when 24 < h <= 72, in [4.0, 7.0] when
   72 < h <= 168, in [2.0, 5.0] when 168 < h <= 720 and in [1.0, 3.0] when
   h > 720; on a boundary the formula of the shorter tier applies (7.0 at 24,
   6.0 at 72, 4.0 at 168, 5 - 1.5*log10(30) = 2.784 at 720) *)
C23_DeadlineBands ==
    Returned("calculate_deadline_score") =>
        \A k \in 1..Len(deadlines) : DeadlineBand(k)

(* A deadline exactly 24 hours away scored 7.0 next to one 30 days away *)
C23_Witness ==
    /\ Returned("calculate_deadline_score")
    /\ deadlines = <<Some(now + 24), Some(now + 720)>>
    /\ deadline_scores[1] = 7 * Scale
    /\ deadline_scores[2] > 2 * Scale

----------------------------------------------------------------------------
(* The time of day in minutes, the day of the week (Monday 0) and the base
   weight of the domain asked for *)
MinuteOfDay == clock_minutes % (24 * 60)

DayOfWeek == clock_minutes \div (24 * 60)

InMapping == Val(domain_arg) \in DOMAIN get_domain_weights(weights_str)

BaseWeight ==
    IF InMapping THEN get_domain_weights(weights_str)[Val(domain_arg)] ELSE Scale \div 2

(* The boost windows: 09:00-17:00 Monday-Friday; from 17:00, until 08:00 or
   on a weekend; from 18:00 or on a weekend *)
WorkWindow == DayOfWeek < 5 /\ 9 * 60 <= MinuteOfDay /\ MinuteOfDay <= 17 * 60

LifeAdminWindow == MinuteOfDay >= 17 * 60 \/ MinuteOfDay <= 8 * 60 \/ DayOfWeek >= 5

GeneralLifeWindow == MinuteOfDay >= 18 * 60 \/ DayOfWeek >= 5

(* C24: for every weekday and time of day calculate_domain_priority_score
   returns base*1.5 for a work task exactly when the day is Monday-Friday and
   the time is within 09:00-17:00, base*1.3 for a life_admin task exactly when
   the time is >= 17:00 or <= 08:00 or the day is a weekend, base*1.2 for a
   general_life task exactly when the time is >= 18:00 or the day is a
   weekend, and the base otherwise; a domain absent from the weight mapping
   gets base 0.5 and never any boost *)
C24_DomainBoostWindows ==
    Returned("calculate_domain_priority_score") =>
        Val(score_result) =
            IF ~InMapping THEN Scale \div 2
            ELSE IF Val(domain_arg) = "work" /\ WorkWindow THEN (BaseWeight * 15) \div 10
            ELSE IF Val(domain_arg) = "life_admin" /\ LifeAdminWindow
            THEN (BaseWeight * 13) \div 10
            ELSE IF Val(domain_arg) = "general_life" /\ GeneralLifeWindow
            THEN (BaseWeight * 12) \div 10
            ELSE BaseWeight

----------------------------------------------------------------------------
(* C25: calculate_context_switch_score returns 0 when there is no current
   task; otherwise +1.0 when the current task has a project and the candidate
   has the same project, even if their domains differ, else +0.5 when both
   have the same domain, else -0.2; no other value is ever returned *)
C25_ContextSwitchScore ==
    Returned("calculate_context_switch_score") =>
        LET x == Val(score_result)
            candidate == tasks[1]
        IN  /\ x \in {0, Scale, Scale \div 2, -(Scale \div 5)}
            /\ current_task = None => x = 0
            /\ current_task # None =>
                  LET cur == Val(current_task)
                      same_project == cur.project_id # None
                                        /\ cur.project_id = candidate.project_id
                  IN  /\ same_project => x = Scale
                      /\ (~same_project /\ cur.domain = candidate.domain)
                            => x = Scale \div 2
                      /\ (~same_project /\ cur.domain # candidate.domain)
                            => x = -(Scale \div 5)

(* Same project, different domains: +1.0 *)
C25_Witness ==
    /\ Returned("calculate_context_switch_score")
    /\ current_task # None
    /\ Val(current_task).project_id = Some(1) /\ tasks[1].project_id = Some(1)
    /\ Val(current_task).domain = "work" /\ tasks[1].domain = "life_admin"
    /\ score_result = Some(Scale)

----------------------------------------------------------------------------
(* The non-completed tasks whose duration is within the explicit budget *)
Fitting ==
    { k \in NotCompleted : tasks[k].estimated_duration <= Val(available_time) }

(* C26: recommend_next_task(tasks, B, cur) with a budget B >= 1 returns the
   task with the highest composite score among the non-completed tasks whose
   duration is <= B, and None only when no non-completed task fits; stated
   here for collections whose durations and composite scores are all
   positive *)
C26_RecommendHighestFitting ==
    (/\ Returned("recommend_next_task")
     /\ available_time # None /\ Val(available_time) >= 1
     /\ PositiveDurations
     /\ \A k \in NotCompleted : CompositeScore(tasks[k]) > 0)
    => /\ ~raised
       /\ IF Fitting = {} THEN result = None
          ELSE /\ result # None
               /\ Val(result).id \in Fitting
               /\ \A k \in Fitting :
                     CompositeScore(tasks[k]) <= CompositeScore(Val(result))

(* is_locked_out(ip) as the login routes would be answered now *)
LockedOut(ip) == is_locked_out(login_attempts, ip, clock).locked

(* ip has had LOCKOUT_THRESHOLD failed logins in a row, each within
   LOCKOUT_DURATION of the one before and with no successful login between *)
ThresholdReached(ip) ==
    /\ failed_streak[ip] >= LOCKOUT_THRESHOLD
    /\ last_failed[ip] # None

LockoutRunning(ip) ==
    /\ ThresholdReached(ip)
    /\ clock < Val(last_failed[ip]) + LOCKOUT_DURATION

LockoutElapsed(ip) ==
    /\ ThresholdReached(ip)
    /\ clock >= Val(last_failed[ip]) + LOCKOUT_DURATION

(* The failure count is_locked_out leaves for ip *)
FailureCount(entries, ip) == IF ip \in DOMAIN entries THEN entries[ip][1] ELSE 0

(* The step answers a login submission of ip, and no time passes *)
Submission(ip) ==
    /\ clock' = clock
    /\ response' # None
    /\ Val(response').ip = ip
    /\ Val(response').method = "POST"

LockedWhileRunning == \A ip \in IPs : LockoutRunning(ip) => LockedOut(ip)

RejectedWhileLocked ==
    \A ip \in IPs :
        LockedOut(ip) /\ clock' = clock =>
            /\ ip \in DOMAIN login_attempts'
            /\ login_attempts'[ip] = login_attempts[ip]
            /\ Submission(ip) => Val(response').status = 429

UnlockedWhenElapsed ==
    \A ip \in IPs :
        LockoutElapsed(ip) =>
            /\ ~LockedOut(ip)
            /\ FailureCount(is_locked_out(login_attempts, ip, clock).login_attempts, ip) = 0

CountRestarts ==
    \A ip \in IPs :
        LockoutElapsed(ip) /\ Submission(ip) /\ Val(response').status = 401 =>
            FailureCount(login_attempts', ip) = 1

SuccessClears ==
    \A ip \in IPs :
        response = Some([ip |-> ip, method |-> "POST", status |-> 200, locked |-> FALSE])
            => ip \notin DOMAIN login_attempts

(* C27: after LOCKOUT_THRESHOLD failed logins from one IP, each within
   LOCKOUT_DURATION of the previous and with no successful login between,
   is_locked_out answers locked at every time before the last failure plus
   LOCKOUT_DURATION; a submission while locked is answered 429 whatever the
   credentials and leaves the IP's record, hence the lockout end, as it was;
   once the lockout has elapsed the IP is not locked out and its next failed
   login is counted as the first; after a successful login the IP has no
   failure record. *)
C27_LoginLockout ==
    /\ [](LockedWhileRunning /\ UnlockedWhenElapsed /\ SuccessClears)
    /\ [][RejectedWhileLocked /\ CountRestarts]_vars

(* An IP locked out by five wrong passwords submits again ten minutes or more
   later, inside the lockout, and is answered 429 *)
C27_Witness ==
    \E ip \in IPs :
        /\ LockoutRunning(ip)
        /\ clock > Val(last_failed[ip])
        /\ response = Some([ip |-> ip, method |-> "POST", status |-> 429, locked |-> TRUE])

(* Request i of the log was admitted: is_rate_limited returned False *)
Admitted(i) == request_log[i].outcome = "False"

(* The requests of the same IP, up to request i, inside the window that ends
   with request i *)
WindowOf(i) ==
    {j \in 1..i : /\ request_log[j].ip = request_log[i].ip
                  /\ request_log[j].time > request_log[i].time - window}

(* C28: for an IP that is not whitelisted, is_rate_limited admits at most
   max_requests requests within a window of `window` seconds, and the request
   that finds max_requests earlier requests of its IP inside the window, the
   (max_requests + 1)-th, is reported as rate limited. *)
C28_RateLimitCap ==
    \A i \in 1..Len(request_log) :
        request_log[i].ip \notin whitelist =>
            /\ Cardinality({j \in WindowOf(i) : Admitted(j)}) <= max_requests
            /\ Cardinality(WindowOf(i)) = max_requests + 1
                   => request_log[i].outcome = "True"

(* What rank_tasks returns for the same collection, current task and clock
   reading when it is given no budget and no window *)
UnbudgetedIds ==
    LET out == rank_tasks(tasks, None, current_task, None, NoEvents, now, weights_str)
    IN {out.result[k].id : k \in 1..Len(out.result)}

(* C29: for tasks with positive integer durations, knapsack_task_selection
   returns no task whose score is <= 0, called directly on any item list or
   by rank_tasks with a budget on the composite scores, whether or not the
   task fits within the budget alone or together with the selected tasks. *)
C29_NonPositiveNeverSelected ==
    /\ (Returned("knapsack_task_selection") /\ PositiveItems)
       => \A k \in ResultIds : ItemScore[k] > 0
    /\ (Returned("rank_tasks") /\ actual_available_time # None /\ PositiveDurations)
       => \A k \in 1..Len(result) : CompositeScore(result[k]) > 0

(* A budgeted ranking leaves out a non-completed task with a score <= 0 that
   fits together with the tasks it returned, and the unbudgeted ranking of
   the same collection includes that task *)
C29_Witness ==
    /\ Returned("rank_tasks") /\ PositiveDurations
    /\ actual_available_time # None
    /\ result # <<>>
    /\ \E k \in NotCompleted :
          /\ CompositeScore(tasks[k]) <= 0
          /\ k \notin ResultIds
          /\ tasks[k].estimated_duration + TotalDuration(result)
                 <= Val(actual_available_time)
          /\ k \in UnbudgetedIds

(* x has the higher score per minute, score / max(1, estimated_duration);
   the quotients are compared by cross-multiplication *)
HigherValue(x, y) ==
    CompositeScore(x) * Max(1, y.estimated_duration)
        > CompositeScore(y) * Max(1, x.estimated_duration)

(* x comes before y among the candidates sorted by score per minute: a higher
   quotient, or the same quotient and a higher composite score, or both the
   same and x earlier in the input *)
CandidateBefore(x, y) ==
    \/ HigherValue(x, y)
    \/ /\ ~HigherValue(y, x)
       /\ \/ CompositeScore(x) > CompositeScore(y)
          \/ CompositeScore(x) = CompositeScore(y) /\ x.id < y.id

(* C30: whenever rank_tasks returns with an effective budget, the returned
   tasks are non-completed input tasks, each at most once, in the order of
   the candidates sorted by composite score / max(1, estimated_duration),
   non-increasing, ties in the quotient in composite-score-descending order;
   so the first returned task has the highest score per minute of the
   returned tasks. *)
C30_BudgetedOrder ==
    (Returned("rank_tasks") /\ actual_available_time # None /\ ~raised)
    => /\ \A k \in 1..Len(result) :
             result[k].id \in NotCompleted /\ result[k] = tasks[result[k].id]
       /\ Cardinality(ResultIds) = Len(result)
       /\ \A i, j \in 1..Len(result) : i < j => CandidateBefore(result[i], result[j])
       /\ \A k \in 1..Len(result) : ~HigherValue(result[k], result[1])

(* A budgeted call returns some but not all candidates; two returned tasks
   have the same score per minute and the one with the higher composite
   score comes first *)
C30_Witness ==
    /\ Returned("rank_tasks") /\ actual_available_time # None /\ ~raised
    /\ Len(result) < Cardinality(NotCompleted)
    /\ \E i, j \in 1..Len(result) :
          /\ i < j
          /\ ~HigherValue(result[i], result[j])
          /\ CompositeScore(result[i]) > CompositeScore(result[j])

====
